---- MODULE Spec2Model ----
(***************************************************************************)
(* Model of apps/desktop/src-tauri/src/main.rs: the process supervisor     *)
(* (start_merod, stop_merod, stop_merod_by_pid_command, get_merod_status   *)
(* and the monitor task spawned by start_merod), the allow-list validator  *)
(* validate_allowed_url and the forwarding proxy proxy_http_request.       *)
(* The unix build (#[cfg(unix)]) is the one modelled.                      *)
(***************************************************************************)
EXTENDS Integers, Sequences, FiniteSets, TLC

(***************************************************************************)
(* Bounds of the model.                                                    *)
(***************************************************************************)
\* Command invocations that may be in flight at the same time.
MaxCallers == 2
\* Daemons spawned in one run; their pids are 1..MaxSpawns.
MaxSpawns == 3
\* Pids of exited daemons the OS hands to a foreign process.
MaxReuse == 1

(***************************************************************************)
(* Program constants.                                                      *)
(***************************************************************************)
\* server_port.unwrap_or(2528)
DefaultServerPort == 2528
\* swarm_port.unwrap_or(2428)
DefaultSwarmPort == 2428

Callers == 1..MaxCallers
Pids == 1..MaxSpawns
\* the server_port argument: absent (the default applies) or a port of the caller's
ServerPorts == {DefaultServerPort, DefaultServerPort + 1}

VARIABLES
    merod_state,  \* MerodState: Option<MerodProcess> as a set of at most one record
    proc,         \* OS: state of each daemon this session spawned
    foreign,      \* OS: pids of exited daemons that now name a foreign process
    nextPid,      \* OS: pid the next spawn gets
    monitors,     \* pids whose monitor task (spawned by start_merod) is pending
    pc,           \* position of each command invocation
    pid,          \* local `pid` / `existing_pid` of each invocation
    child,        \* start_merod: pid of the spawned child
    status,       \* start_merod: exit status the Child handle holds
    server_port,  \* start_merod: server_port
    solo,         \* history: no other invocation was in flight during this one
    prior,        \* history: start_merod found a live process in the slot
    stoppedOk,    \* history: a stop_merod returned Ok and no start recorded since
    ret,          \* event: what the last step returned to its caller, or how the
                  \* task it ended ended, if it did either
    sent          \* event: the <<pid, signal>> pairs the last step sent with kill

supVars == <<merod_state, proc, foreign, nextPid, monitors, pc, pid, child,
             status, server_port, solo, prior, stoppedOk, ret, sent>>

VARIABLES
    request_url,          \* validate_allowed_url: `url`, as the pieces it is written from
    configured_node_url,  \* validate_allowed_url: `configured_node_url`, a set of at most one
    verdict               \* what validate_allowed_url returned ("pending" before the call)

valVars == <<request_url, configured_node_url, verdict>>

VARIABLES
    request,       \* proxy_http_request: method, headers and body of `request`
    proxy_pc,      \* position of the proxy_http_request invocation
    outbound,      \* the HTTP requests the proxy has sent, a set of at most one
    proxy_result   \* what proxy_http_request returned ("pending" before it returns)

proxyVars == <<request, proxy_pc, outbound, proxy_result>>

VARIABLES
    config_file,   \* start_merod / init_merod_node: the node's config.toml on disk
    ports,         \* start_merod: server_port and swarm_port of the call that patches
    patch_result   \* how the patch of config.toml ended ("pending" before it)

cfgVars == <<config_file, ports, patch_result>>

VARIABLES
    calimero_home, \* list_merod_nodes: the storage root directory on disk
    listing        \* what list_merod_nodes returned (NotListed before the call)

listVars == <<calimero_home, listing>>

VARIABLES
    log_file,      \* get_merod_logs: the node's logs/merod.log, a set of at most one text
    lines,         \* get_merod_logs: `lines`, an Option<u32> as a set of at most one
    logs           \* what get_merod_logs returned (NotRead before the call)

logVars == <<log_file, lines, logs>>

VARIABLES
    lock,          \* the Mutex of MerodState: the tasks holding a guard, at most one
    todo           \* what each task has still to do, a sequence of operations

lockVars == <<lock, todo>>

\* what a supervisor step leaves alone
otherVars == <<valVars, proxyVars, cfgVars, listVars, logVars, lockVars>>

(***************************************************************************)
(* The operating system's process table, as the supervisor sees it.        *)
(***************************************************************************)
\* daemons spawned by this session that are running
Alive == {p \in Pids : proc[p] = "alive"}

\* `ps -p <pid>` succeeds: some process has this pid
ProcessExists(p) == proc[p] = "alive" \/ p \in foreign

\* `kill -0 <pid>` succeeds: the pid names a process the session may signal,
\* which a foreign process (the one `kill -9` fails on) is not
Signalable(p) == proc[p] = "alive"

\* the process table after `kill -9 <pid>`: SIGKILL ends a daemon of ours
AfterKill9(p) == IF proc[p] = "alive" THEN [proc EXCEPT ![p] = "dead"] ELSE proc

\* what `kill -9 <pid>` may report: delivered; "No such process", also for a
\* daemon that exits on its own between the `ps -p` before the kill and the
\* kill; or another failure (the pid now names a process of somebody else)
Kill9Outcome(p) ==
    IF proc[p] = "alive" THEN {"ok", "no_such_process"}
    ELSE IF p \in foreign THEN {"other"} ELSE {"no_such_process"}

\* how a daemon ends: with an exit code, or by a signal
ExitKinds == {"code", "signal"}

\* how the daemon `kill -9 <pid>` was aimed at has ended: by the signal, or on
\* its own when the kill found no such process
EndedHow(out) == IF out = "no_such_process" THEN ExitKinds ELSE {"signal"}

\* the exit status each Child handle holds once process p has ended in way how
Reaped(p, how) ==
    [c \in Callers |-> IF child[c] = p /\ proc[p] = "alive" THEN how ELSE status[c]]

(***************************************************************************)
(* The slot and the values commands return.                                *)
(***************************************************************************)
\* a record that holds the default port whatever the call's port is
MerodProcessDefaultPort(p, sp) == [pid |-> p, port |-> DefaultServerPort]
\* lines 400-404: MerodProcess { pid, port }
MerodProcess(p, sp) == [pid |-> p, port |-> sp]

\* state.as_ref().map(|proc| proc.pid), as a set of at most one pid
SlotPids == {m.pid : m \in merod_state}

\* a command's return value: who called what, the outcome, and its payload
\* (a pid and a port, or the pids of the running nodes detected); with it,
\* what the force kill of the call reported, if the call came to one
Ret(c, op, kind, p, sp) ==
    [caller |-> c, op |-> op, kind |-> kind, pid |-> p, port |-> sp, nodes |-> {},
     kill9 |-> "none", solo |-> solo[c], prior |-> IF prior[c] THEN pid[c] ELSE 0]
NoRet == [caller |-> 0, op |-> "none", kind |-> "none", pid |-> 0, port |-> 0,
          nodes |-> {}, kill9 |-> "none", solo |-> FALSE, prior |-> 0]

OthersIdle(c) == \A d \in Callers \ {c} : pc[d] = "idle"
StartStates == {"start_term", "start_kill", "start_spawn", "start_grace"}
StartsInFlight == {c \in Callers : pc[c] \in StartStates}

\* an invocation begins: every other invocation in flight is no longer alone
Begin(c) == [d \in Callers |-> IF d = c THEN OthersIdle(c) ELSE FALSE]

\* an invocation ends: its locals go
Idle(f, c) == [f EXCEPT ![c] = 0]
Leave(c) ==
    /\ pc' = [pc EXCEPT ![c] = "idle"]
    /\ pid' = Idle(pid, c)
    /\ child' = Idle(child, c)
    /\ server_port' = Idle(server_port, c)
    /\ status' = [status EXCEPT ![c] = "none"]
    /\ prior' = [prior EXCEPT ![c] = FALSE]

(***************************************************************************)
(* URLs.  A URL string is a sequence of tokens; url::Url::parse works on   *)
(* that sequence.  The inputs are written from five pieces (scheme, user   *)
(* info, host, port part, tail) so that a claim can speak of the pieces a  *)
(* URL was written from, whatever the parser makes of the string.          *)
(***************************************************************************)
Url(s, u, h, p, t) == [scheme |-> s, userinfo |-> u, host |-> h, portpart |-> p, tail |-> t]
NoUrl == Url("", <<>>, <<>>, <<>>, <<>>)

\* the string a URL's pieces spell; no scheme: a relative reference ("not-a-url")
UrlString(x) ==
    (IF x.scheme = "" THEN <<>> ELSE <<x.scheme, "://">>)
        \o x.userinfo \o x.host \o x.portpart \o x.tail

Min(S) == CHOOSE x \in S : \A y \in S : x <= y
Max(S) == CHOOSE x \in S : \A y \in S : x >= y
\* index of the first / last token of s that is in toks, 0 if there is none
FirstOf(s, toks) ==
    LET I == {i \in 1..Len(s) : s[i] \in toks} IN IF I = {} THEN 0 ELSE Min(I)
LastOf(s, toks) ==
    LET I == {i \in 1..Len(s) : s[i] \in toks} IN IF I = {} THEN 0 ELSE Max(I)

\* str::to_lowercase, token by token
LowerToken(t) ==
    CASE t = "HTTP" -> "http"
      [] t = "HTTPS" -> "https"
      [] t = "FTP" -> "ftp"
      [] t = "LOCALHOST" -> "localhost"
      [] t = "LocalHost" -> "localhost"
      [] t = "EVIL.COM" -> "evil.com"
      [] t = "SUB." -> "sub."
      [] t = ".EVIL.COM" -> ".evil.com"
      [] t = "Content-Type" -> "content-type"
      [] t = "CONTENT-TYPE" -> "content-type"
      [] t = "Authorization" -> "authorization"
      [] OTHER -> t
ToLowercase(s) == [i \in 1..Len(s) |-> LowerToken(s[i])]

\* the number a run of digits spells, as a set: empty when it is not a u16
PortNumber(t) ==
    CASE t = "2528" -> {2528}
      [] t = "80" -> {80}
      [] t = "443" -> {443}
      [] t = "8080" -> {8080}
      [] OTHER -> {}

\* the url crate's default ports of its special schemes
SpecialSchemePort(s) ==
    CASE s = "http" -> {80}
      [] s = "ws" -> {80}
      [] s = "https" -> {443}
      [] s = "ftp" -> {21}
      [] OTHER -> {}

SchemeTokens == {"http", "HTTP", "https", "HTTPS", "ftp", "FTP", "ws"}
\* the authority taken to end at a path only, not at a query or a fragment
TailTokensPathOnly == {"/", "/api/test"}
\* tokens that end the authority: a path, a query, a fragment
TailTokens == {"/", "/api/test", "?q=1", "#frag"}
\* tokens a host may not hold: separators, and a percent-encoded ':'
ForbiddenHostTokens == {":", "@", "%3A"}

\* a non-lower-cased scheme read as if the parser kept its letter case
ParsedSchemeKeepsCase(t) == t
\* the url crate lower-cases the scheme while it parses
ParsedScheme(t) == LowerToken(t)

ParseError ==
    [ok |-> FALSE, scheme |-> "", username |-> <<>>, password |-> <<>>,
     host |-> <<>>, port |-> {}]

\* url::Url::parse (lines 35 and 72), for the special schemes: the scheme and
\* the host come out lower-cased, user info is what precedes the last '@', an
\* empty password is dropped, a port equal to the scheme's default is dropped
ParseUrl(str) ==
    IF ~(Len(str) >= 2 /\ str[1] \in SchemeTokens /\ str[2] = "://")
    THEN ParseError
    ELSE LET scheme == ParsedScheme(str[1])
             rest == SubSeq(str, 3, Len(str))
             tailAt == FirstOf(rest, TailTokens)
             authority == IF tailAt = 0 THEN rest ELSE SubSeq(rest, 1, tailAt - 1)
             at == LastOf(authority, {"@"})
             userinfo == SubSeq(authority, 1, at - 1)
             hostport == SubSeq(authority, at + 1, Len(authority))
             colonU == FirstOf(userinfo, {":"})
             username == IF colonU = 0 THEN userinfo ELSE SubSeq(userinfo, 1, colonU - 1)
             password == IF colonU = 0 THEN <<>>
                         ELSE SubSeq(userinfo, colonU + 1, Len(userinfo))
             colonH == FirstOf(hostport, {":"})
             rawhost == IF colonH = 0 THEN hostport ELSE SubSeq(hostport, 1, colonH - 1)
             rawport == IF colonH = 0 THEN <<>>
                        ELSE SubSeq(hostport, colonH + 1, Len(hostport))
             portOk == rawport = <<>> \/ (Len(rawport) = 1 /\ PortNumber(rawport[1]) # {})
             hostOk == rawhost # <<>> /\ \A i \in 1..Len(rawhost) : rawhost[i] \notin ForbiddenHostTokens
         IN IF ~(portOk /\ hostOk) THEN ParseError
            ELSE [ok |-> TRUE, scheme |-> scheme, username |-> username,
                  password |-> password, host |-> ToLowercase(rawhost),
                  port |-> IF rawport = <<>> THEN {}
                           ELSE PortNumber(rawport[1]) \ SpecialSchemePort(scheme)]

(***************************************************************************)
(* validate_allowed_url                                                    *)
(***************************************************************************)
\* ports of the fallback allow-list and of the scheme defaults
FallbackPort == 2528
HttpPort == 80
HttpsPort == 443

\* a request without a port compared as if it named the node's default port
RequestPortDefaultsToNode(parsed) ==
    IF parsed.port # {} THEN parsed.port ELSE {FallbackPort}
\* lines 62-68: parsed.port().unwrap_or_else(scheme default)
RequestPort(parsed) ==
    IF parsed.port # {} THEN parsed.port
    ELSE IF parsed.scheme = "http" THEN {HttpPort} ELSE {HttpsPort}

\* lines 74-80: node_parsed.port().or_else(scheme default, None for other schemes)
NodePort(node_parsed) ==
    IF node_parsed.port # {} THEN node_parsed.port
    ELSE CASE node_parsed.scheme = "http" -> {HttpPort}
           [] node_parsed.scheme = "https" -> {HttpsPort}
           [] OTHER -> {}

\* lines 71-89: the configured node URL parses and has the request's host,
\* port and scheme
MatchesConfigured(scheme, host_lower, port, cfg) ==
    \E node_url \in cfg :
        LET node_parsed == ParseUrl(UrlString(node_url)) IN
        /\ node_parsed.ok
        /\ ToLowercase(node_parsed.host) = host_lower
        /\ NodePort(node_parsed) # {} /\ NodePort(node_parsed) = port
        /\ node_parsed.scheme = scheme

\* the fallback with the host matched by prefix instead of by equality
MatchesFallbackByPrefix(scheme, host_lower, port) ==
    /\ scheme = "http" /\ port = {FallbackPort}
    /\ host_lower # <<>> /\ host_lower[1] \in {"localhost", "127.0.0.1"}
\* lines 99-105: the fallback defaults
MatchesFallback(scheme, host_lower, port) ==
    \/ scheme = "http" /\ host_lower = <<"localhost">> /\ port = {FallbackPort}
    \/ scheme = "http" /\ host_lower = <<"127.0.0.1">> /\ port = {FallbackPort}

\* the user-info gate looking at the username alone
HasUsernameOnly(parsed) == parsed.username # <<>>
\* line 48: parsed.username() != "" || parsed.password().is_some()
HasCredentials(parsed) == parsed.username # <<>> \/ parsed.password # <<>>

\* the scheme gate letting every parsed scheme through
AnyScheme(scheme) == TRUE
\* line 40: scheme is "http" or "https"
SupportedScheme(scheme) == scheme = "http" \/ scheme = "https"

\* the configured-only gate left out: the fallback defaults stay admissible
ConfiguredOrFallback(cfg) == FALSE
\* the configured-only gate applied to a configured URL that parses only
ConfiguredAndParsed(cfg) == \E node_url \in cfg : ParseUrl(UrlString(node_url)).ok
\* line 92: configured_node_url.is_some()
ConfiguredOnly(cfg) == cfg # {}

\* the validator with the user-info gate ahead of the scheme gate
validate_credentials_first(url, cfg) ==
    LET parsed == ParseUrl(url) IN
    IF ~parsed.ok THEN "InvalidUrl"
    ELSE IF HasCredentials(parsed) THEN "CredentialsInUrl"
    ELSE IF ~SupportedScheme(parsed.scheme) THEN "UnsupportedScheme"
    ELSE IF parsed.host = <<>> THEN "MissingHost"
    ELSE LET host_lower == ToLowercase(parsed.host)
             port == RequestPort(parsed)
         IN IF MatchesConfigured(parsed.scheme, host_lower, port, cfg) THEN "Ok"
            ELSE IF ConfiguredOnly(cfg) THEN "NotConfiguredEndpoint"
            ELSE IF MatchesFallback(parsed.scheme, host_lower, port) THEN "Ok"
            ELSE "NotAllowed"
\* lines 34-143: "Ok", or the reason of the Err
validate_allowed_url(url, cfg) ==
    LET parsed == ParseUrl(url) IN
    IF ~parsed.ok THEN "InvalidUrl"
    ELSE IF ~SupportedScheme(parsed.scheme) THEN "UnsupportedScheme"
    ELSE IF HasCredentials(parsed) THEN "CredentialsInUrl"
    ELSE IF parsed.host = <<>> THEN "MissingHost"
    ELSE LET host_lower == ToLowercase(parsed.host)
             port == RequestPort(parsed)
         IN IF MatchesConfigured(parsed.scheme, host_lower, port, cfg) THEN "Ok"
            ELSE IF ConfiguredOnly(cfg) THEN "NotConfiguredEndpoint"
            ELSE IF MatchesFallback(parsed.scheme, host_lower, port) THEN "Ok"
            ELSE "NotAllowed"

\* one call of validate_allowed_url
Validate ==
    /\ verdict = "pending"
    /\ verdict' = validate_allowed_url(UrlString(request_url), configured_node_url)
    /\ UNCHANGED <<request_url, configured_node_url>>
    /\ UNCHANGED <<supVars, proxyVars, cfgVars, listVars, logVars, lockVars>>

(***************************************************************************)
(* start_merod                                                             *)
(***************************************************************************)
\* lines 445-454: read the slot under the lock
StartBegin(c, sp) ==
    /\ pc[c] = "idle"
    /\ (nextPid - 1) + Cardinality(StartsInFlight) < MaxSpawns
    /\ server_port' = [server_port EXCEPT ![c] = sp]
    /\ solo' = Begin(c)
    /\ IF merod_state = {}
       THEN /\ pc' = [pc EXCEPT ![c] = "start_spawn"]
            /\ UNCHANGED <<pid, prior>>
       ELSE /\ pc' = [pc EXCEPT ![c] = "start_term"]
            /\ pid' = [pid EXCEPT ![c] = CHOOSE p \in SlotPids : TRUE]
            /\ prior' = [prior EXCEPT ![c] = \E p \in SlotPids : proc[p] = "alive"]
    /\ ret' = NoRet
    /\ sent' = {}
    /\ UNCHANGED <<merod_state, proc, foreign, nextPid, monitors, child,
                   status, stoppedOk>>
    /\ UNCHANGED otherVars

\* lines 460-464: kill -TERM, then sleep 1 s
StartTerm(c) ==
    /\ pc[c] = "start_term"
    /\ sent' = {<<pid[c], "TERM">>}
    /\ pc' = [pc EXCEPT ![c] = "start_kill"]
    /\ ret' = NoRet
    /\ UNCHANGED <<merod_state, proc, foreign, nextPid, monitors, pid, child,
                   status, server_port, solo, prior, stoppedOk>>
    /\ UNCHANGED otherVars

\* a start that leaves the slot as it is after stopping the prior process
StartKeepsSlot == merod_state
\* lines 479-481: start_merod clears the slot whatever it holds by now
StartClear == {}

\* lines 465-481: kill -9 (outcome ignored), then clear the slot
StartKill(c) ==
    /\ pc[c] = "start_kill"
    /\ sent' = {<<pid[c], "KILL">>}
    /\ proc' = AfterKill9(pid[c])
    /\ status' = Reaped(pid[c], "signal")
    /\ merod_state' = StartClear
    /\ pc' = [pc EXCEPT ![c] = "start_spawn"]
    /\ ret' = NoRet
    /\ UNCHANGED <<foreign, nextPid, monitors, pid, child, server_port, solo, prior,
                   stoppedOk>>
    /\ UNCHANGED otherVars

\* the errors start_merod returns before a child exists (lines 485-644)
StartErrors == {"BinaryUnresolved", "CreateDirFailed", "ConfigReadFailed",
                "ConfigParseFailed", "ConfigWriteFailed", "NodeNameRequired",
                "LogFileFailed", "SpawnFailed"}

\* lines 484-650: resolve the binary, prepare directories, patch the config,
\* open the log, spawn the child; then sleep 500 ms
StartSpawn(c) ==
    /\ pc[c] = "start_spawn"
    /\ \/ \E e \in StartErrors :
            /\ ret' = Ret(c, "start", e, 0, 0)
            /\ Leave(c)
            /\ solo' = [solo EXCEPT ![c] = FALSE]
            /\ UNCHANGED <<proc, nextPid>>
       \/ /\ nextPid \in Pids
          /\ proc' = [proc EXCEPT ![nextPid] = "alive"]
          /\ child' = [child EXCEPT ![c] = nextPid]
          /\ nextPid' = nextPid + 1
          /\ pc' = [pc EXCEPT ![c] = "start_grace"]
          /\ ret' = NoRet
          /\ UNCHANGED <<pid, server_port, status, solo, prior>>
    /\ sent' = {}
    /\ UNCHANGED <<merod_state, foreign, monitors, stoppedOk>>
    /\ UNCHANGED otherVars

\* lines 653-659: child.try_wait() gave Some(status) and status.code() is Some
ExitedImmediately(c) == status[c] = "code"

\* lines 652-686: check for an immediate exit; otherwise record the process,
\* spawn the monitor task and return Ok
StartFinish(c) ==
    /\ pc[c] = "start_grace"
    /\ IF ExitedImmediately(c)
       THEN /\ ret' = Ret(c, "start", "StartFailed", 0, 0)
            /\ UNCHANGED <<merod_state, monitors, stoppedOk>>
       ELSE /\ merod_state' = {MerodProcess(child[c], server_port[c])}
            /\ monitors' = monitors \cup {child[c]}
            /\ ret' = Ret(c, "start", "started", child[c], server_port[c])
            /\ stoppedOk' = FALSE
    /\ Leave(c)
    /\ solo' = [solo EXCEPT ![c] = FALSE]
    /\ sent' = {}
    /\ UNCHANGED <<proc, foreign, nextPid>>
    /\ UNCHANGED otherVars

\* a monitor that clears the slot whatever it holds
MonitorClearAlways(p) == {}
\* a monitor that never clears the slot
MonitorClearNever(p) == merod_state
\* lines 672-683: the monitor clears the slot only if it holds the monitored pid
MonitorClear(p) == IF p \in SlotPids THEN {} ELSE merod_state

\* lines 670-684: the monitor task: child.wait() returned, lock, compare, clear;
\* the task ends having cleared the slot or not
Monitor(p) ==
    /\ p \in monitors
    /\ proc[p] = "dead"
    /\ monitors' = monitors \ {p}
    /\ merod_state' = MonitorClear(p)
    /\ ret' = [NoRet EXCEPT !.op = "monitor", !.pid = p,
                            !.kind = IF merod_state' = merod_state
                                     THEN "kept" ELSE "cleared"]
    /\ sent' = {}
    /\ UNCHANGED <<proc, foreign, nextPid, pc, pid, child, status, server_port, solo,
                   prior, stoppedOk>>
    /\ UNCHANGED otherVars

(***************************************************************************)
(* stop_merod                                                              *)
(***************************************************************************)
\* lines 691-697: read the pid under the lock, or return "Merod is not running"
StopBegin(c) ==
    /\ pc[c] = "idle"
    /\ IF merod_state = {}
       THEN /\ ret' = Ret(c, "stop", "NotRunning", 0, 0)
            /\ solo' = [d \in Callers |-> FALSE]
            /\ UNCHANGED <<pc, pid>>
       ELSE /\ pid' = [pid EXCEPT ![c] = CHOOSE p \in SlotPids : TRUE]
            /\ pc' = [pc EXCEPT ![c] = "stop_check"]
            /\ solo' = Begin(c)
            /\ ret' = NoRet
    /\ sent' = {}
    /\ UNCHANGED <<merod_state, proc, foreign, nextPid, monitors, child,
                   status, server_port, prior, stoppedOk>>
    /\ UNCHANGED otherVars

\* a stop_merod that returns Ok with the slot as it found it
StopKeepsSlot == merod_state
\* lines 781-785: stop_merod clears the slot whatever it holds
StopClear == {}

\* lines 704-727 and 781-788: ps -p; a process already gone: clear the slot and
\* return Ok; otherwise kill -TERM and sleep 2 s
StopCheck(c) ==
    /\ pc[c] = "stop_check"
    /\ IF ProcessExists(pid[c])
       THEN /\ sent' = {<<pid[c], "TERM">>}
            /\ pc' = [pc EXCEPT ![c] = "stop_recheck"]
            /\ ret' = NoRet
            /\ UNCHANGED <<merod_state, stoppedOk, pid, child, server_port, status,
                           prior, solo>>
       ELSE /\ merod_state' = StopClear
            /\ ret' = Ret(c, "stop", "stopped", pid[c], 0)
            /\ stoppedOk' = TRUE
            /\ Leave(c)
            /\ solo' = [solo EXCEPT ![c] = FALSE]
            /\ sent' = {}
    /\ UNCHANGED <<proc, foreign, nextPid, monitors>>
    /\ UNCHANGED otherVars

\* every failure of the force kill taken for an error, "No such process" too
KillFailedAnyStderr(out) == out # "ok"
\* lines 748-756: the force kill failed and stderr lacks "No such process"
KillFailed(out) == out = "other"

\* lines 729-788: ps -p again; still running: kill -9, and a failure other than
\* "No such process" returns the error before the slot is touched; otherwise
\* clear the slot and return Ok
StopRecheck(c) ==
    /\ pc[c] = "stop_recheck"
    /\ IF ProcessExists(pid[c])
       THEN \E out \in Kill9Outcome(pid[c]) :
            /\ sent' = {<<pid[c], "KILL">>}
            /\ proc' = AfterKill9(pid[c])
            /\ \E how \in EndedHow(out) : status' = Reaped(pid[c], how)
            /\ IF KillFailed(out)
               THEN /\ ret' = [Ret(c, "stop", "KillFailed", pid[c], 0)
                                 EXCEPT !.kill9 = out]
                    /\ UNCHANGED <<merod_state, stoppedOk>>
               ELSE /\ merod_state' = StopClear
                    /\ ret' = [Ret(c, "stop", "stopped", pid[c], 0)
                                 EXCEPT !.kill9 = out]
                    /\ stoppedOk' = TRUE
       ELSE /\ merod_state' = StopClear
            /\ ret' = Ret(c, "stop", "stopped", pid[c], 0)
            /\ stoppedOk' = TRUE
            /\ sent' = {}
            /\ UNCHANGED <<proc, status>>
    /\ pc' = [pc EXCEPT ![c] = "idle"]
    /\ pid' = Idle(pid, c)
    /\ solo' = [solo EXCEPT ![c] = FALSE]
    /\ UNCHANGED <<foreign, nextPid, monitors, child, server_port, prior>>
    /\ UNCHANGED otherVars

(***************************************************************************)
(* stop_merod_by_pid_command                                               *)
(***************************************************************************)
\* a stop by pid that clears the slot whatever it holds
ByPidClearAlways(p) == {}
\* lines 874-882: clear the slot only if it holds the given pid
ByPidClear(p) == IF p \in SlotPids THEN {} ELSE merod_state

\* lines 797-820 and 874-885: ps -p; no such process: clear the slot if it
\* holds this pid and return Ok; otherwise kill -TERM and sleep 2 s
StopByPidBegin(c, p) ==
    /\ pc[c] = "idle"
    /\ IF ProcessExists(p)
       THEN /\ sent' = {<<p, "TERM">>}
            /\ pc' = [pc EXCEPT ![c] = "bypid_recheck"]
            /\ pid' = [pid EXCEPT ![c] = p]
            /\ solo' = Begin(c)
            /\ ret' = NoRet
            /\ UNCHANGED merod_state
       ELSE /\ merod_state' = ByPidClear(p)
            /\ ret' = Ret(c, "stop_by_pid", "stopped", p, 0)
            /\ solo' = [d \in Callers |-> FALSE]
            /\ sent' = {}
            /\ UNCHANGED <<pc, pid>>
    /\ UNCHANGED <<proc, foreign, nextPid, monitors, child, status, server_port,
                   prior, stoppedOk>>
    /\ UNCHANGED otherVars

\* lines 822-885: ps -p again, kill -9 if still running, clear the slot if it
\* holds this pid
StopByPidRecheck(c) ==
    /\ pc[c] = "bypid_recheck"
    /\ IF ProcessExists(pid[c])
       THEN \E out \in Kill9Outcome(pid[c]) :
            /\ sent' = {<<pid[c], "KILL">>}
            /\ proc' = AfterKill9(pid[c])
            /\ \E how \in EndedHow(out) : status' = Reaped(pid[c], how)
            /\ IF KillFailed(out)
               THEN /\ ret' = [Ret(c, "stop_by_pid", "KillFailed", pid[c], 0)
                                 EXCEPT !.kill9 = out]
                    /\ UNCHANGED merod_state
               ELSE /\ merod_state' = ByPidClear(pid[c])
                    /\ ret' = [Ret(c, "stop_by_pid", "stopped", pid[c], 0)
                                 EXCEPT !.kill9 = out]
       ELSE /\ merod_state' = ByPidClear(pid[c])
            /\ ret' = Ret(c, "stop_by_pid", "stopped", pid[c], 0)
            /\ sent' = {}
            /\ UNCHANGED <<proc, status>>
    /\ pc' = [pc EXCEPT ![c] = "idle"]
    /\ pid' = Idle(pid, c)
    /\ solo' = [solo EXCEPT ![c] = FALSE]
    /\ UNCHANGED <<foreign, nextPid, monitors, child, server_port, prior, stoppedOk>>
    /\ UNCHANGED otherVars

(***************************************************************************)
(* get_merod_status                                                        *)
(***************************************************************************)
\* lines 890-913 and 946-955: under the lock, read the slot and probe the pid
\* with kill -0; a dead process: drop the guard and go on to clear the slot
StatusProbe(c) ==
    /\ pc[c] = "idle"
    /\ IF merod_state = {}
       THEN /\ ret' = Ret(c, "status", "not_running", 0, 0)
            /\ solo' = [d \in Callers |-> FALSE]
            /\ UNCHANGED <<pc, pid>>
       ELSE LET m == CHOOSE m \in merod_state : TRUE IN
            IF Signalable(m.pid)
            THEN /\ ret' = Ret(c, "status", "running", m.pid, m.port)
                 /\ solo' = [d \in Callers |-> FALSE]
                 /\ UNCHANGED <<pc, pid>>
            ELSE /\ pc' = [pc EXCEPT ![c] = "status_clear"]
                 /\ pid' = [pid EXCEPT ![c] = m.pid]
                 /\ solo' = Begin(c)
                 /\ ret' = NoRet
    /\ sent' = {}
    /\ UNCHANGED <<merod_state, proc, foreign, nextPid, monitors, child,
                   status, server_port, prior, stoppedOk>>
    /\ UNCHANGED otherVars

\* a status that reports running: false with the slot as it found it
StatusKeepsSlot(p) == merod_state
\* lines 906-908: status clears the slot whatever it holds by now
StatusClearSlot(p) == {}

\* lines 906-911: lock again, clear the slot, report running: false
StatusClear(c) ==
    /\ pc[c] = "status_clear"
    /\ merod_state' = StatusClearSlot(pid[c])
    /\ ret' = Ret(c, "status", "not_running", pid[c], 0)
    /\ pc' = [pc EXCEPT ![c] = "idle"]
    /\ pid' = Idle(pid, c)
    /\ solo' = [solo EXCEPT ![c] = FALSE]
    /\ sent' = {}
    /\ UNCHANGED <<proc, foreign, nextPid, monitors, child, status, server_port,
                   prior, stoppedOk>>
    /\ UNCHANGED otherVars

(***************************************************************************)
(* detect_running_merod_nodes                                              *)
(***************************************************************************)
\* a detection that adopts a node it found when the slot is absent
DetectAdopts(found) ==
    IF merod_state = {} /\ found # {}
    THEN {MerodProcess(Min(found), DefaultServerPort)}
    ELSE merod_state
\* lines 1148-1268: the command takes no MerodState and leaves the slot alone
DetectLeaves(found) == merod_state

\* lines 1148-1268: `ps ax -o pid,command`, one observation per line that
\* holds "merod" and "run": the running daemons of this session (spawned as
\* `merod --home .. --node-name .. run`, lines 619-631) and any foreign
\* process whose command line holds both words; an exited daemon has no such
\* line.  The name, ports and home directory of an observation come from the
\* command line and the node's config.toml, not from the supervisor.
detect_running_merod_nodes ==
    /\ \/ ret' = [NoRet EXCEPT !.op = "detect", !.kind = "PsFailed"]
          /\ UNCHANGED merod_state
       \/ \E others \in SUBSET foreign :
             LET found == Alive \cup others IN
             /\ ret' = [NoRet EXCEPT !.op = "detect", !.kind = "detected",
                                     !.nodes = found]
             /\ merod_state' = DetectLeaves(found)
    /\ sent' = {}
    /\ UNCHANGED <<proc, foreign, nextPid, monitors, pc, pid, child, status,
                   server_port, solo, prior, stoppedOk>>
    /\ UNCHANGED otherVars

(***************************************************************************)
(* The environment: a daemon exits on its own, the OS reuses a pid.        *)
(***************************************************************************)
ProcExit(p) ==
    /\ proc[p] = "alive"
    /\ proc' = [proc EXCEPT ![p] = "dead"]
    /\ \E how \in ExitKinds : status' = Reaped(p, how)
    /\ ret' = NoRet
    /\ sent' = {}
    /\ UNCHANGED <<merod_state, foreign, nextPid, monitors, pc, pid, child,
                   server_port, solo, prior, stoppedOk>>
    /\ UNCHANGED otherVars

PidReuse(p) ==
    /\ proc[p] = "dead"
    /\ p \notin foreign
    /\ Cardinality(foreign) < MaxReuse
    /\ foreign' = foreign \cup {p}
    /\ ret' = NoRet
    /\ sent' = {}
    /\ UNCHANGED <<merod_state, proc, nextPid, monitors, pc, pid, child,
                   status, server_port, solo, prior, stoppedOk>>
    /\ UNCHANGED otherVars

\* MerodState::default() (line 1534): the slot starts absent
SupInit ==
    /\ merod_state = {}
    /\ proc = [p \in Pids |-> "unborn"]
    /\ foreign = {}
    /\ nextPid = 1
    /\ monitors = {}
    /\ pc = [c \in Callers |-> "idle"]
    /\ pid = [c \in Callers |-> 0]
    /\ child = [c \in Callers |-> 0]
    /\ status = [c \in Callers |-> "none"]
    /\ server_port = [c \in Callers |-> 0]
    /\ solo = [c \in Callers |-> FALSE]
    /\ prior = [c \in Callers |-> FALSE]
    /\ stoppedOk = FALSE
    /\ ret = NoRet
    /\ sent = {}

SupNext ==
    \/ \E c \in Callers, sp \in ServerPorts : StartBegin(c, sp)
    \/ \E c \in Callers : StartTerm(c)
    \/ \E c \in Callers : StartKill(c)
    \/ \E c \in Callers : StartSpawn(c)
    \/ \E c \in Callers : StartFinish(c)
    \/ \E p \in Pids : Monitor(p)
    \/ \E c \in Callers : StopBegin(c)
    \/ \E c \in Callers : StopCheck(c)
    \/ \E c \in Callers : StopRecheck(c)
    \/ \E c \in Callers, p \in Pids : StopByPidBegin(c, p)
    \/ \E c \in Callers : StopByPidRecheck(c)
    \/ \E c \in Callers : StatusProbe(c)
    \/ \E c \in Callers : StatusClear(c)
    \/ detect_running_merod_nodes
    \/ \E p \in Pids : ProcExit(p)
    \/ \E p \in Pids : PidReuse(p)

(***************************************************************************)
(* proxy_http_request                                                      *)
(***************************************************************************)
\* HttpRequest without its url (lines 11-17): the method, the headers map (a
\* set of at most one set of <<name, value>> pairs) and the body (a set of at
\* most one string)
HttpRequest(m, h, b) == [method |-> m, headers |-> h, body |-> b]
NoRequest == HttpRequest("", {}, {})

\* the validation result taken as never an error
NeverRejected(v) == FALSE
\* line 150: the `?` on validate_allowed_url's result returns its error
Rejected(v) == v # "Ok"

\* lines 196-209: the methods the match builds a request for
SupportedMethod(m) ==
    m \in {"GET", "POST", "PUT", "DELETE", "PATCH", "OPTIONS", "HEAD"}

\* the default added whenever there is a body, whatever was supplied
DefaultForEveryBody(supplied, body) == body # {}
\* lines 213-219 and 245: a body is present and no supplied header's name is
\* "content-type" once lower-cased
DefaultContentType(supplied, body) ==
    /\ ~\E h \in supplied : LowerToken(h[1]) = "content-type"
    /\ body # {}

\* lines 211-251: the headers put on the outbound request
OutboundHeaders(req) ==
    LET supplied == UNION req.headers
    IN  IF req.headers # {}
        THEN IF DefaultContentType(supplied, req.body)
             THEN supplied \cup {<<"Content-Type", "application/json">>}
             ELSE supplied
        ELSE IF req.body # {}
             THEN {<<"Content-Type", "application/json">>}
             ELSE {}

\* line 150: validate the URL first; an error is returned as it is
ProxyValidate ==
    /\ proxy_pc = "validate"
    /\ verdict' = validate_allowed_url(UrlString(request_url), configured_node_url)
    /\ IF Rejected(verdict')
       THEN /\ proxy_result' = verdict'
            /\ proxy_pc' = "done"
       ELSE /\ proxy_pc' = "build"
            /\ UNCHANGED proxy_result
    /\ UNCHANGED <<request, outbound, request_url, configured_node_url>>
    /\ UNCHANGED <<supVars, cfgVars, listVars, logVars, lockVars>>

\* lines 153-258: parse the URL again, build the request for the method, add
\* headers and body, send it
ProxySend ==
    /\ proxy_pc = "build"
    /\ LET parsed_original == ParseUrl(UrlString(request_url)) IN
       IF ~parsed_original.ok
       THEN /\ proxy_result' = "InvalidUrl"
            /\ proxy_pc' = "done"
            /\ UNCHANGED outbound
       ELSE IF parsed_original.host = <<>>
       THEN /\ proxy_result' = "MissingHost"
            /\ proxy_pc' = "done"
            /\ UNCHANGED outbound
       ELSE IF ~SupportedMethod(request.method)
       THEN /\ proxy_result' = "UnsupportedMethod"
            /\ proxy_pc' = "done"
            /\ UNCHANGED outbound
       ELSE /\ outbound' = {[method |-> request.method,
                             url |-> UrlString(request_url),
                             headers |-> OutboundHeaders(request),
                             body |-> request.body]}
            /\ proxy_pc' = "sent"
            /\ UNCHANGED proxy_result
    /\ UNCHANGED <<request, valVars>>
    /\ UNCHANGED <<supVars, cfgVars, listVars, logVars, lockVars>>

\* lines 259-269 and 280-282: what send() and text() fail with
TransportErrors == {"Timeout", "ConnectionFailed", "RequestFailed", "ReadFailed"}

\* lines 258-291: the response arrives, or the call fails
ProxyReceive ==
    /\ proxy_pc = "sent"
    /\ proxy_result' \in {"Ok"} \cup TransportErrors
    /\ proxy_pc' = "done"
    /\ UNCHANGED <<request, outbound, valVars>>
    /\ UNCHANGED <<supVars, cfgVars, listVars, logVars, lockVars>>

\* no proxy call is in progress
ProxyIdle ==
    /\ request = NoRequest
    /\ proxy_pc = "idle"
    /\ outbound = {}
    /\ proxy_result = "pending"

(***************************************************************************)
(* config.toml.  A document is its toml::Value: the `server` and `swarm`   *)
(* keys (each absent, a table, or some other value) and the rest of the    *)
(* document.  A listen address is the sequence of its '/'-separated        *)
(* segments; a segment that starts with digits carries them as a number.   *)
(***************************************************************************)
\* a segment: its leading digits (-1: none) and the text after them
Name(t) == [digits |-> -1, text |-> t]
Number(n) == [digits |-> n, text |-> ""]

\* an element of a listen array: a string (an address) or another value
Address(segs) == [string |-> TRUE, segs |-> segs]
NotAString == [string |-> FALSE, segs |-> <<>>]

\* the value under `listen`: an array of elements, or another value
ListenArray(items) == [array |-> TRUE, items |-> items]
NotAnArray == [array |-> FALSE, items |-> <<>>]

\* the value under `server` or `swarm`: a table with its optional auth_mode
\* and listen and its remaining keys, or another value
Table(auth_mode, listen, rest) ==
    [table |-> TRUE, auth_mode |-> auth_mode, listen |-> listen, rest |-> rest]
NotATable == [table |-> FALSE, auth_mode |-> {}, listen |-> {}, rest |-> ""]

Document(server, swarm, rest) == [server |-> server, swarm |-> swarm, rest |-> rest]

\* config.toml on disk: whether it exists, whether its text is TOML, the
\* value its text spells, and how the text is laid out
ConfigFile(toml, value, layout) ==
    [exists |-> TRUE, toml |-> toml, value |-> value, layout |-> layout]
NoFile == [exists |-> FALSE, toml |-> FALSE, value |-> Document({}, {}, ""),
           layout |-> ""]

\* addr.contains("/a/b/c/"): the names in a row, and a '/' after the last
Contains(segs, names) ==
    \E i \in 1..Len(segs) :
        /\ i + Len(names) <= Len(segs)
        /\ \A k \in 1..Len(names) : segs[i + k - 1] = Name(names[k])

\* a replacement that looks for the default port numbers only
ReplaceDefaultPort(segs, proto, port) ==
    LET I == {i \in 1..Len(segs) - 1 :
                 /\ segs[i] = Name(proto)
                 /\ segs[i + 1].digits \in {DefaultServerPort, DefaultSwarmPort}}
    IN  IF I = {} THEN segs
        ELSE [segs EXCEPT ![Min(I) + 1].digits = port]
\* Regex::new(r"/<proto>/\d+").replace(addr, "/<proto>/<port>"): the first
\* match is replaced, and an address with no match comes back as it is
ReplacePort(segs, proto, port) ==
    LET I == {i \in 1..Len(segs) - 1 :
                 segs[i] = Name(proto) /\ segs[i + 1].digits >= 0}
    IN  IF I = {} THEN segs
        ELSE [segs EXCEPT ![Min(I) + 1].digits = port]

\* every element of a server.listen array rewritten with the tcp port
\* whatever it addresses
ServerListenEntryAnyTcp(e, srv_port) ==
    IF e.string THEN Address(ReplacePort(e.segs, "tcp", srv_port)) ELSE e
\* lines 533-547: one element of server.listen
ServerListenEntry(e, srv_port) ==
    IF ~e.string THEN e
    ELSE IF Contains(e.segs, <<"ip4", "127.0.0.1", "tcp">>)
    THEN Address(ReplacePort(e.segs, "tcp", srv_port))
    ELSE IF Contains(e.segs, <<"ip6", "::1", "tcp">>)
    THEN Address(ReplacePort(e.segs, "tcp", srv_port))
    ELSE e

\* a swarm.listen element rewritten only when it is a tcp address
SwarmListenEntryTcpOnly(e, swarm_port) ==
    IF e.string /\ Contains(e.segs, <<"tcp">>)
    THEN Address(ReplacePort(e.segs, "tcp", swarm_port)) ELSE e
\* lines 558-575: one element of swarm.listen
SwarmListenEntry(e, swarm_port) ==
    IF ~e.string THEN e
    ELSE IF Contains(e.segs, <<"tcp">>) /\ ~Contains(e.segs, <<"udp">>)
    THEN Address(ReplacePort(e.segs, "tcp", swarm_port))
    ELSE IF Contains(e.segs, <<"udp">>)
    THEN Address(ReplacePort(e.segs, "udp", swarm_port))
    ELSE e

\* lines 524-527 (and 1129-1131): insert auth_mode = "embedded" into the
\* server value if it is a table
SetAuthMode(server) ==
    {IF sv.table THEN [sv EXCEPT !.auth_mode = {"embedded"}] ELSE sv : sv \in server}

\* lines 529-551: rewrite the elements of server.listen if it is an array
UpdateServerListen(server, srv_port) ==
    {[sv EXCEPT !.listen =
         {IF l.array
          THEN ListenArray([i \in 1..Len(l.items) |->
                               ServerListenEntry(l.items[i], srv_port)])
          ELSE l : l \in sv.listen}] : sv \in server}

\* swarm.listen left as it is, and the rest of the swarm table dropped
UpdateSwarmListenDropsRest(swarm, swarm_port) ==
    {[sv EXCEPT !.rest = ""] : sv \in swarm}
\* lines 554-580: rewrite the elements of swarm.listen if it is an array
UpdateSwarmListen(swarm, swarm_port) ==
    {[sv EXCEPT !.listen =
         {IF l.array
          THEN ListenArray([i \in 1..Len(l.items) |->
                               SwarmListenEntry(l.items[i], swarm_port)])
          ELSE l : l \in sv.listen}] : sv \in swarm}

\* lines 521-580: the document start_merod writes back
UpdatedConfig(config, srv_port, swarm_port) ==
    Document(UpdateServerListen(SetAuthMode(config.server), srv_port),
             UpdateSwarmListen(config.swarm, swarm_port),
             config.rest)

\* lines 1127-1132: the document init_merod_node writes back
InitializedConfig(config) ==
    Document(SetAuthMode(config.server), config.swarm, config.rest)

\* toml::to_string_pretty and std::fs::write: the value in the serializer's
\* own layout, whatever layout (comments, key order, spacing) the file had
WriteConfig(config) == ConfigFile(TRUE, config, "pretty")

\* lines 510-590: start_merod patches the node's config.toml, if there is one
UpdateConfigToml ==
    /\ patch_result = "pending"
    /\ IF ~config_file.exists
       THEN /\ patch_result' = "NoConfig"
            /\ UNCHANGED config_file
       ELSE IF ~config_file.toml
       THEN /\ patch_result' = "ConfigParseFailed"
            /\ UNCHANGED config_file
       ELSE \/ /\ patch_result' \in {"ConfigReadFailed", "ConfigWriteFailed"}
               /\ UNCHANGED config_file
            \/ /\ config_file' = WriteConfig(UpdatedConfig(config_file.value,
                                     ports.server_port, ports.swarm_port))
               /\ patch_result' = "Updated"
    /\ UNCHANGED <<ports, supVars, valVars, proxyVars, listVars, logVars, lockVars>>

\* lines 1117-1142: init_merod_node sets the auth mode in the config.toml
\* that `merod init` wrote, if there is one
InitConfigToml ==
    /\ patch_result = "pending"
    /\ IF ~config_file.exists
       THEN /\ patch_result' = "NoConfig"
            /\ UNCHANGED config_file
       ELSE IF ~config_file.toml
       THEN /\ patch_result' = "ConfigParseFailed"
            /\ UNCHANGED config_file
       ELSE \/ /\ patch_result' \in {"ConfigReadFailed", "ConfigWriteFailed"}
               /\ UNCHANGED config_file
            \/ /\ config_file' = WriteConfig(InitializedConfig(config_file.value))
               /\ patch_result' = "Initialized"
    /\ UNCHANGED <<ports, supVars, valVars, proxyVars, listVars, logVars, lockVars>>

\* start_merod's unwrap_or defaults, no patch in progress, no config.toml
NoPorts == [server_port |-> 0, swarm_port |-> 0]
CfgIdle ==
    /\ config_file = NoFile
    /\ ports = NoPorts
    /\ patch_result = "pending"

(***************************************************************************)
(* list_merod_nodes.  The storage root is absent or a directory; a         *)
(* directory is the sequence of entries read_dir yields, in whatever order *)
(* the file system gives them.  A file name is a sequence of byte values.  *)
(***************************************************************************)
\* the byte a name starts with when it is hidden: '.'
Dot == 46

\* an entry of the storage root: its file name, whether the name is valid
\* Unicode, whether the entry is a directory, and the state of the
\* config.toml inside it
DirEntry(name, unicode, is_dir, config) ==
    [name |-> name, unicode |-> unicode, is_dir |-> is_dir, config |-> config]

\* the storage root as a directory: whether read_dir succeeds, and its entries
Directory(readable, entries) == [readable |-> readable, entries |-> entries]

\* String's Ord: byte by byte, a proper prefix first
RECURSIVE StrLess(_, _)
StrLess(a, b) ==
    IF b = <<>> THEN FALSE
    ELSE IF a = <<>> THEN TRUE
    ELSE IF Head(a) # Head(b) THEN Head(a) < Head(b)
    ELSE StrLess(Tail(a), Tail(b))

\* a listing that leaves the names in the order read_dir gave them
Unsorted(names) == names
\* line 1020: nodes.sort()
RECURSIVE Sort(_)
Sort(names) ==
    IF names = <<>> THEN <<>>
    ELSE LET least == CHOOSE i \in 1..Len(names) :
                          \A j \in 1..Len(names) : ~StrLess(names[j], names[i])
             others == [k \in 1..Len(names) - 1 |->
                           IF k < least THEN names[k] ELSE names[k + 1]]
         IN  <<names[least]>> \o Sort(others)

\* every directory with a parseable config listed, hidden or not
IsNodeOrHidden(entry) == entry.is_dir /\ entry.unicode /\ entry.config = "valid"
\* lines 988-1004: the entry is a directory, its name is Unicode and does not
\* start with '.', its config.toml exists, can be read and parses
IsNode(entry) ==
    /\ entry.is_dir
    /\ entry.unicode
    /\ Head(entry.name) # Dot
    /\ entry.config = "valid"

\* lines 984-1017: the names pushed, in the order of the entries
RECURSIVE NodeNames(_)
NodeNames(entries) ==
    IF entries = <<>> THEN <<>>
    ELSE (IF IsNode(Head(entries)) THEN <<Head(entries).name>> ELSE <<>>)
             \o NodeNames(Tail(entries))

Listed(nodes) == [status |-> "Ok", nodes |-> nodes]
ListFailed(e) == [status |-> e, nodes |-> <<>>]
NotListed == [status |-> "pending", nodes |-> <<>>]

\* lines 959-1023: list_merod_nodes
list_merod_nodes ==
    /\ listing = NotListed
    /\ IF calimero_home = {}
       THEN listing' = Listed(<<>>)
       ELSE \E home \in calimero_home :
              IF ~home.readable
              THEN listing' = ListFailed("ReadDirFailed")
              ELSE \/ listing' = Listed(Sort(NodeNames(home.entries)))
                   \/ /\ home.entries # <<>>
                      /\ listing' = ListFailed("ReadEntryFailed")
    /\ UNCHANGED <<calimero_home, supVars, valVars, proxyVars, cfgVars, logVars, lockVars>>

\* list_merod_nodes is not called
ListIdle ==
    /\ calimero_home = {}
    /\ listing = NotListed

(***************************************************************************)
(* get_merod_logs.  A text is the lines it holds and whether the last of   *)
(* them is ended by a line feed; a line is the sequence of its characters. *)
(***************************************************************************)
\* lines.unwrap_or(500)
DefaultLines == 500
\* .min(10_000)
MaxLines == 10000

Text(ls, terminated) == [lines |-> ls, terminated |-> terminated]

\* line 1343: lines.unwrap_or(500).min(10_000)
RequestedLines(arg) ==
    LET given == IF arg = {} THEN DefaultLines ELSE CHOOSE n \in arg : TRUE
    IN  IF given < MaxLines THEN given ELSE MaxLines

\* a window that takes the first lines of the file instead of the last
FirstLines(all_lines, n) == SubSeq(all_lines, 1, Min({n, Len(all_lines)}))
\* lines 1376-1377: &all_lines[all_lines.len().saturating_sub(n)..]
LastLines(all_lines, n) ==
    LET start == IF Len(all_lines) >= n THEN Len(all_lines) - n ELSE 0
    IN  SubSeq(all_lines, start + 1, Len(all_lines))

\* line 1379: join("\n"); a line feed joins each line to the next, so that an
\* empty last line shows as a trailing line feed and a single empty line as
\* the empty string
Join(ls) ==
    IF ls = <<>> THEN Text(<<>>, FALSE)
    ELSE IF ls[Len(ls)] = <<>> THEN Text(SubSeq(ls, 1, Len(ls) - 1), Len(ls) > 1)
    ELSE Text(ls, FALSE)

LogsRead(text) == [status |-> "Ok", text |-> text]
LogsFailed(e) == [status |-> e, text |-> Text(<<>>, FALSE)]
NotRead == LogsFailed("pending")

\* lines 1338-1380: get_merod_logs; content.lines() yields the lines of the
\* text, ended or not
get_merod_logs ==
    /\ logs = NotRead
    /\ \/ /\ lines = {}
          /\ logs' = LogsFailed("NoHomeDirectory")
       \/ /\ log_file = {}
          /\ logs' = LogsFailed("NoLogFile")
       \/ /\ log_file # {}
          /\ logs' = LogsFailed("ReadFailed")
       \/ \E content \in log_file :
             LET all_lines == content.lines
                 last_lines == LastLines(all_lines, RequestedLines(lines))
             IN  logs' = LogsRead(Join(last_lines))
    /\ UNCHANGED <<log_file, lines, supVars, valVars, proxyVars, cfgVars, listVars,
                   lockVars>>

\* get_merod_logs is not called
LogIdle ==
    /\ log_file = {}
    /\ lines = {}
    /\ logs = NotRead

(***************************************************************************)
(* The lock of the slot.  Each command, and the monitor task, is the       *)
(* sequence of operations of one path through its code: "lock" takes the   *)
(* Mutex (merod_state.lock()), "unlock" is the guard going out of scope or *)
(* being dropped, "read" and "write" access the slot, "probe" is ps -p or  *)
(* kill -0, "signal" is kill -TERM or kill -9, "sleep" and "wait" are      *)
(* awaited.                                                                *)
(***************************************************************************)
\* start_merod: read the slot (449-452); stop the prior process and clear
\* the slot (460-481) if there is one; fail, or spawn and sleep (643-650);
\* fail on an immediate exit (653-659), or record the child (662-665)
StartPaths ==
    LET stopPrior == <<"signal", "sleep", "signal", "lock", "write", "unlock">>
        launch == <<"spawn", "sleep", "try_wait">>
    IN  {<<"lock", "read", "unlock">> \o pre \o post :
            pre \in {<<>>, stopPrior},
            post \in {<<>>, launch, launch \o <<"lock", "write", "unlock">>}}

\* the monitor task (671-684): child.wait(), then compare and clear or not
MonitorPaths ==
    {<<"wait", "lock", "read", "write", "unlock">>,
     <<"wait", "lock", "read", "unlock">>}

\* stop_merod: read the slot (691-697); Err when absent; ps -p (705), kill
\* -TERM and sleep (721-727), ps -p (730), kill -9 (743), Err (753) or clear
\* the slot (782-785)
StopPaths ==
    LET clear == <<"lock", "write", "unlock">>
    IN  {<<"lock", "read", "unlock">> \o rest :
            rest \in {<<>>,
                      <<"probe">> \o clear,
                      <<"probe", "signal", "sleep", "probe">> \o clear,
                      <<"probe", "signal", "sleep", "probe", "signal">> \o clear,
                      <<"probe", "signal", "sleep", "probe", "signal">>}}

\* stop_merod_by_pid_command: ps -p (798), kill -TERM and sleep, ps -p, kill
\* -9, Err or compare and clear (875-882)
StopByPidPaths ==
    {before \o after :
        before \in {<<"probe">>,
                    <<"probe", "signal", "sleep", "probe">>,
                    <<"probe", "signal", "sleep", "probe", "signal">>},
        after \in {<<"lock", "read", "write", "unlock">>,
                   <<"lock", "read", "unlock">>}}
    \cup {<<"probe", "signal", "sleep", "probe", "signal">>}

\* a get_merod_status that locks again without dropping its guard
StatusPathsKeepGuard ==
    {<<"lock", "read", "unlock">>,
     <<"lock", "read", "probe", "unlock">>,
     <<"lock", "read", "probe", "lock", "write", "unlock">>}
\* get_merod_status: lock (890); an absent slot: return; kill -0 under the
\* guard (897-902); running: return; dead: drop(state) (906), lock again
\* (907), clear (908), return
StatusPaths ==
    {<<"lock", "read", "unlock">>,
     <<"lock", "read", "probe", "unlock">>,
     <<"lock", "read", "probe", "unlock", "lock", "write", "unlock">>}

\* merod_state.lock(): the task gets the guard when no task holds one
Acquire(t) ==
    /\ todo[t] # <<>> /\ Head(todo[t]) = "lock"
    /\ lock = {}
    /\ lock' = {t}
    /\ todo' = [todo EXCEPT ![t] = Tail(@)]
    /\ UNCHANGED <<supVars, valVars, proxyVars, cfgVars, listVars, logVars>>

\* the guard is dropped
Release(t) ==
    /\ todo[t] # <<>> /\ Head(todo[t]) = "unlock"
    /\ lock' = lock \ {t}
    /\ todo' = [todo EXCEPT ![t] = Tail(@)]
    /\ UNCHANGED <<supVars, valVars, proxyVars, cfgVars, listVars, logVars>>

\* any other operation of the task
Perform(t) ==
    /\ todo[t] # <<>> /\ Head(todo[t]) \notin {"lock", "unlock"}
    /\ todo' = [todo EXCEPT ![t] = Tail(@)]
    /\ UNCHANGED lock
    /\ UNCHANGED <<supVars, valVars, proxyVars, cfgVars, listVars, logVars>>

\* no task runs
LockIdle ==
    /\ lock = {}
    /\ todo = <<>>

vars == <<supVars, valVars, proxyVars, cfgVars, listVars, logVars,
         lockVars>>

\* the validator at rest, while the supervisor runs
ValIdle ==
    /\ request_url = NoUrl
    /\ configured_node_url = {}
    /\ verdict = "pending"

Init == SupInit /\ ValIdle /\ ProxyIdle /\ CfgIdle /\ ListIdle
    /\ LogIdle /\ LockIdle
Next == SupNext
Spec == Init /\ [][Next]_vars

(***************************************************************************)
(* The supervisor with no stop and no status call: starts, the monitor     *)
(* tasks they spawn, and the environment.  tokio runs a spawned task that  *)
(* is ready: once child.wait() of a monitor (line 671) has returned, the   *)
(* rest of the task runs.                                                  *)
(***************************************************************************)
NextMonitored ==
    \/ \E c \in Callers, sp \in ServerPorts : StartBegin(c, sp)
    \/ \E c \in Callers : StartTerm(c)
    \/ \E c \in Callers : StartKill(c)
    \/ \E c \in Callers : StartSpawn(c)
    \/ \E c \in Callers : StartFinish(c)
    \/ \E p \in Pids : Monitor(p)
    \/ \E p \in Pids : ProcExit(p)
    \/ \E p \in Pids : PidReuse(p)
SpecMonitored ==
    Init /\ [][NextMonitored]_vars /\ \A p \in Pids : WF_vars(Monitor(p))

(***************************************************************************)
(* The validator on its own: every request URL and configured node URL     *)
(* written from the pieces below, one call of validate_allowed_url each.   *)
(***************************************************************************)
RequestUrls ==
    LET ReqSchemes == {"http", "HTTP", "https", "HTTPS", "ftp", ""}
        ReqUserInfos == {<<>>, <<"@">>, <<"user", "@">>, <<":", "pw", "@">>,
                         <<"localhost", ":", "2528", "@">>}
        ReqHosts == {<<"localhost">>, <<"LOCALHOST">>, <<"LocalHost">>,
                     <<"127.0.0.1">>, <<"evil.com">>, <<"EVIL.COM">>,
                     <<"sub.", "localhost">>, <<"localhost", ".evil.com">>,
                     <<"localhost", "%3A", "2528">>}
        ReqPortParts == {<<>>, <<":", "2528">>, <<":", "80">>, <<":", "8080">>,
                         <<":", "443">>, <<":", "2528", ".evil.com">>}
        ReqTails == {<<>>, <<"/">>, <<"/api/test">>,
                     <<"/api/test", "?q=1", "#frag">>}
    IN  [scheme : ReqSchemes, userinfo : ReqUserInfos, host : ReqHosts,
         portpart : ReqPortParts, tail : ReqTails]

ConfiguredUrls ==
    LET CfgSchemes == {"http", "HTTP", "https", "ftp", ""}
        CfgHosts == {<<"localhost">>, <<"LOCALHOST">>, <<"evil.com">>}
        CfgPortParts == {<<>>, <<":", "2528">>, <<":", "80">>}
    IN  [scheme : CfgSchemes, userinfo : {<<>>}, host : CfgHosts,
         portpart : CfgPortParts, tail : {<<>>}]

ValInit ==
    /\ request_url \in RequestUrls
    /\ configured_node_url \in {{}} \cup {{n} : n \in ConfiguredUrls}
    /\ verdict = "pending"

InitValidate == SupInit /\ ValInit /\ ProxyIdle /\ CfgIdle /\ ListIdle
    /\ LogIdle /\ LockIdle
SpecValidate == InitValidate /\ [][Validate]_vars

(***************************************************************************)
(* The proxy on its own: one call of proxy_http_request for every request  *)
(* and configured node URL drawn from the sets below.                      *)
(***************************************************************************)
ProxyUrls ==
    [scheme : {"http", "HTTPS", "ftp"}, userinfo : {<<>>, <<"user", "@">>},
     host : {<<"localhost">>, <<"127.0.0.1">>, <<"evil.com">>},
     portpart : {<<>>, <<":", "2528">>}, tail : {<<"/api/test">>}]
ProxyConfiguredUrls ==
    [scheme : {"http", "https"}, userinfo : {<<>>},
     host : {<<"localhost">>, <<"evil.com">>},
     portpart : {<<>>, <<":", "2528">>}, tail : {<<>>}]

ProxyInit ==
    /\ request_url \in ProxyUrls
    /\ configured_node_url \in {{}} \cup {{n} : n \in ProxyConfiguredUrls}
    /\ verdict = "pending"
    /\ LET ProxyMethods == {"GET", "POST", "PUT", "DELETE", "PATCH", "OPTIONS",
                            "HEAD", "get", "TRACE", ""}
           ProxyHeaders ==
               {{},
                {{}},
                {{<<"Authorization", "Bearer t">>}},
                {{<<"content-type", "text/plain">>}},
                {{<<"Content-Type", "text/plain">>, <<"Authorization", "Bearer t">>}},
                {{<<"CONTENT-TYPE", "text/plain">>}}}
           ProxyBodies == {{}, {"{}"}}
       IN  request \in {HttpRequest(m, h, b) :
                           m \in ProxyMethods, h \in ProxyHeaders, b \in ProxyBodies}
    /\ proxy_pc = "validate"
    /\ outbound = {}
    /\ proxy_result = "pending"

InitProxy == SupInit /\ ProxyInit /\ CfgIdle /\ ListIdle /\ LogIdle /\ LockIdle
NextProxy == ProxyValidate \/ ProxySend \/ ProxyReceive
SpecProxy == InitProxy /\ [][NextProxy]_vars

(***************************************************************************)
(* The config patch on its own: one patch, by start_merod or by            *)
(* init_merod_node, of every config.toml drawn from the sets below.        *)
(***************************************************************************)
ServerAddresses ==
    [loopback4 |-> Address(<<Name("ip4"), Name("127.0.0.1"), Name("tcp"), Number(2528)>>),
     loopback6 |-> Address(<<Name("ip6"), Name("::1"), Name("tcp"), Number(2528)>>),
     any4 |-> Address(<<Name("ip4"), Name("0.0.0.0"), Name("tcp"), Number(2528)>>),
     quic4 |-> Address(<<Name("ip4"), Name("127.0.0.1"), Name("udp"), Number(2528),
                         Name("quic-v1")>>),
     ws4 |-> Address(<<Name("ip4"), Name("127.0.0.1"), Name("tcp"), Number(2528),
                       Name("ws")>>),
     dns |-> Address(<<Name("dns4"), Name("localhost"), Name("tcp"), Number(2528)>>)]
SwarmAddresses ==
    [tcp4 |-> Address(<<Name("ip4"), Name("0.0.0.0"), Name("tcp"), Number(2428)>>),
     quic4 |-> Address(<<Name("ip4"), Name("0.0.0.0"), Name("udp"), Number(2428),
                         Name("quic-v1")>>),
     tcp6 |-> Address(<<Name("ip6"), Name("::"), Name("tcp"), Number(2428)>>),
     quic6 |-> Address(<<Name("ip6"), Name("::"), Name("udp"), Number(2428),
                         Name("quic-v1")>>),
     unix |-> Address(<<Name("unix"), Name("merod.sock")>>),
     both |-> Address(<<Name("ip4"), Name("0.0.0.0"), Name("tcp"), Number(2428),
                        Name("udp"), Number(2428)>>)]

ServerListens ==
    {{}, {NotAnArray}, {ListenArray(<<>>)},
     {ListenArray(<<ServerAddresses.loopback4>>)},
     {ListenArray(<<ServerAddresses.loopback4, ServerAddresses.loopback6>>)},
     {ListenArray(<<ServerAddresses.any4, ServerAddresses.quic4, NotAString>>)},
     {ListenArray(<<ServerAddresses.ws4, ServerAddresses.dns,
                    ServerAddresses.loopback4>>)}}
SwarmListens ==
    {{}, {NotAnArray},
     {ListenArray(<<SwarmAddresses.tcp4, SwarmAddresses.quic4>>)},
     {ListenArray(<<SwarmAddresses.tcp6, SwarmAddresses.quic6, NotAString>>)},
     {ListenArray(<<SwarmAddresses.unix, SwarmAddresses.both>>)}}
ServerValues ==
    {{}, {NotATable}} \cup
    {{Table(a, l, "cors_allowed_origins")} :
        a \in {{}, {"proxy"}, {"embedded"}}, l \in ServerListens}
SwarmValues ==
    {{}, {NotATable}} \cup
    {{Table(a, l, "discovery")} : a \in {{}, {"proxy"}}, l \in SwarmListens}
Documents ==
    {Document(sv, sw, r) :
        sv \in ServerValues, sw \in SwarmValues, r \in {"", "identity"}}
ConfigFiles ==
    {NoFile, ConfigFile(FALSE, Document({}, {}, ""), "by hand")} \cup
    {ConfigFile(TRUE, d, "by hand") : d \in Documents}

CfgInit ==
    /\ config_file \in ConfigFiles
    /\ ports \in [server_port : {DefaultServerPort, 9000},
                  swarm_port : {DefaultSwarmPort, 9001}]
    /\ patch_result = "pending"

InitConfig == SupInit /\ ValIdle /\ ProxyIdle /\ ListIdle /\ CfgInit
    /\ LogIdle /\ LockIdle
NextConfig == UpdateConfigToml \/ InitConfigToml
SpecConfig == InitConfig /\ [][NextConfig]_vars

(***************************************************************************)
(* The node listing on its own: one call of list_merod_nodes for every     *)
(* storage root drawn from the sets below.                                 *)
(***************************************************************************)
MaxEntries == 3
\* file names: "A", "a", "ab", "b", ".a", and a name that is not Unicode
EntryNames == {<<65>>, <<97>>, <<97, 98>>, <<98>>, <<Dot, 97>>, <<255>>}
DirEntries ==
    {DirEntry(n, n # <<255>>, d, c) :
        n \in EntryNames, d \in BOOLEAN, c \in {"missing", "valid"}}
    \cup {DirEntry(n, n # <<255>>, TRUE, c) :
        n \in EntryNames, c \in {"unreadable", "invalid"}}
\* the entries of a directory have different names
DistinctNames(es) == \A i, j \in 1..Len(es) : i # j => es[i].name # es[j].name

ListInit ==
    /\ \/ calimero_home = {}
       \/ calimero_home = {Directory(FALSE, <<>>)}
       \/ \E n \in 0..MaxEntries : \E es \in [1..n -> DirEntries] :
             /\ DistinctNames(es)
             /\ calimero_home = {Directory(TRUE, es)}
    /\ listing = NotListed

InitList == SupInit /\ ValIdle /\ ProxyIdle /\ CfgIdle /\ ListInit
    /\ LogIdle /\ LockIdle
SpecList == InitList /\ [][list_merod_nodes]_vars

(***************************************************************************)
(* The log reader on its own: one call of get_merod_logs for every log     *)
(* file and `lines` argument below.  Line i of a file reads <<i>>; the     *)
(* lengths lie around 0, the default window and the largest window, and so  *)
(* do the `lines` arguments, with one far above the largest window.        *)
(***************************************************************************)
\* how far around 0, the default window and the largest window the lengths lie
LogSlack == 1

LogInit ==
    LET lengths == UNION {{n \in (k - LogSlack)..(k + LogSlack) : n >= 0} :
                             k \in {0, DefaultLines, MaxLines}}
        files ==
            {Text([i \in 1..n |-> <<i>>], t) : n \in lengths \ {0}, t \in BOOLEAN}
            \cup {Text([i \in 1..n |-> IF i = n THEN <<>> ELSE <<i>>], TRUE) :
                     n \in lengths \ {0}}
            \cup {Text(<<>>, FALSE)}
    IN  /\ log_file \in {{}} \cup {{f} : f \in files}
        /\ lines \in {{}} \cup {{n} : n \in lengths \cup {2147483647}}
        /\ logs = NotRead

InitLogs == SupInit /\ ValIdle /\ ProxyIdle /\ CfgIdle /\ ListIdle
    /\ LogInit /\ LockIdle
SpecLogs == InitLogs /\ [][get_merod_logs]_vars

(***************************************************************************)
(* The lock on its own: MaxTasks tasks, each a command or a monitor on one *)
(* of its paths, run concurrently.  A task that can take a step takes one: *)
(* tokio runs every ready task, and a free Mutex is given to a waiter.     *)
(***************************************************************************)
MaxTasks == 2
Tasks == 1..MaxTasks

LockInit ==
    /\ lock = {}
    /\ todo \in [Tasks -> StartPaths \cup MonitorPaths \cup StopPaths
                             \cup StopByPidPaths \cup StatusPaths]

InitLock ==
    SupInit /\ ValIdle /\ ProxyIdle /\ CfgIdle /\ ListIdle /\ LogIdle /\ LockInit
NextLock ==
    \/ \E t \in Tasks : Acquire(t)
    \/ \E t \in Tasks : Release(t)
    \/ \E t \in Tasks : Perform(t)
SpecLock ==
    /\ InitLock /\ [][NextLock]_vars
    /\ \A t \in Tasks : WF_vars(Acquire(t) \/ Release(t) \/ Perform(t))

(***************************************************************************)
(* What the claims about validate_allowed_url speak of, read off the       *)
(* pieces a URL was written from.                                          *)
(***************************************************************************)
Decided == verdict # "pending"
Admitted == verdict = "Ok"

WrittenScheme(x) == LowerToken(x.scheme)
WrittenHost(x) == [i \in 1..Len(x.host) |-> LowerToken(x.host[i])]
\* the effective port: the one written, or the scheme's default
WrittenPort(x) ==
    IF x.portpart = <<>>
    THEN (CASE WrittenScheme(x) = "http" -> {80}
            [] WrittenScheme(x) = "https" -> {443}
            [] OTHER -> {})
    ELSE IF Len(x.portpart) = 2 /\ x.portpart[1] = ":"
         THEN PortNumber(x.portpart[2]) ELSE {}
\* the URL is a well-formed absolute URL with a host name and a port
WellFormed(x) ==
    /\ x.scheme # ""
    /\ x.host # <<>> /\ \A i \in 1..Len(x.host) : x.host[i] # "%3A"
    /\ x.portpart = <<>> \/ WrittenPort(x) # {}
\* the user-info component holds a username or a password
HasUserInfo(x) == \E i \in 1..Len(x.userinfo) : x.userinfo[i] \notin {"@", ":"}
\* the (scheme, lower-cased host, effective port) triple
Triple(x) == <<WrittenScheme(x), WrittenHost(x), WrittenPort(x)>>
\* the request reaches the endpoint comparison: it parses, its scheme is http
\* or https and it carries no user info
ReachesComparison(x) ==
    WellFormed(x) /\ WrittenScheme(x) \in {"http", "https"} /\ ~HasUserInfo(x)

\* C3 as claimed: every https request URL is rejected, whatever its host and
\* port and whatever the configured endpoint (absent, http or https).
C3_HttpsAlwaysRejected ==
    (Decided /\ WrittenScheme(request_url) = "https") => ~Admitted

C5_FallbackExactMatch ==
    (Decided /\ configured_node_url = {}) =>
        (Admitted <=>
            /\ ReachesComparison(request_url)
            /\ Triple(request_url) \in {<<"http", <<"localhost">>, {2528}>>,
                                        <<"http", <<"127.0.0.1">>, {2528}>>})
\* http://localhost.evil.com:2528 is rejected
C5_Witness ==
    /\ configured_node_url = {}
    /\ request_url.scheme = "http" /\ request_url.userinfo = <<>>
    /\ request_url.host = <<"localhost", ".evil.com">>
    /\ request_url.portpart = <<":", "2528">>
    /\ verdict = "NotAllowed"

\* C6: a request with a non-empty user-info component is rejected, whatever
\* its host and port and whatever the configured endpoint.
C6_UserInfoRejected == (Decided /\ HasUserInfo(request_url)) => ~Admitted
\* http://:pw@localhost:2528 is rejected although http://localhost:2528 is
\* the configured endpoint
C6_Witness ==
    /\ request_url.userinfo = <<":", "pw", "@">>
    /\ \E n \in configured_node_url : WellFormed(n) /\ Triple(request_url) = Triple(n)
    /\ WrittenScheme(request_url) = "http" /\ WellFormed(request_url)
    /\ verdict = "CredentialsInUrl"

\* C7: a request whose scheme is neither http nor https is rejected, for
\* every host, port and configured endpoint.
C7_OtherSchemesRejected ==
    (Decided /\ WrittenScheme(request_url) \notin {"http", "https"}) => ~Admitted
\* ftp://localhost:2528 is rejected although the configured endpoint is
\* ftp://localhost:2528
C7_Witness ==
    /\ request_url.scheme = "ftp" /\ WellFormed(request_url)
    /\ ~HasUserInfo(request_url)
    /\ \E n \in configured_node_url : WellFormed(n) /\ Triple(request_url) = Triple(n)
    /\ verdict = "UnsupportedScheme"

\* the same URL with its scheme and host in lower case
LowerCased(x) == [x EXCEPT !.scheme = LowerToken(@), !.host = WrittenHost(x)]
Admits(x, cfg) == validate_allowed_url(UrlString(x), cfg) = "Ok"

\* C8: the letter case of the request's scheme and host, and of the
\* configured endpoint's, does not change the decision: the request is
\* admitted iff its lower-cased form is, and iff it is against the
\* lower-cased configured endpoint.
C8_CaseInsensitive ==
    Decided =>
        /\ Admitted <=> Admits(LowerCased(request_url), configured_node_url)
        /\ Admitted <=> Admits(request_url, {LowerCased(n) : n \in configured_node_url})
\* HTTP://LOCALHOST:2528 is admitted
C8_Witness ==
    /\ request_url.scheme = "HTTP" /\ request_url.host = <<"LOCALHOST">>
    /\ request_url.portpart = <<":", "2528">>
    /\ configured_node_url = {}
    /\ Admitted

\* C30 as claimed: when the configured endpoint string does not parse as a
\* URL, the request is decided as if no endpoint were configured:
\* http://localhost:2528 and http://127.0.0.1:2528 are admitted.
C30_UnparsedEndpointFallsThrough ==
    (Decided /\ \E n \in configured_node_url : ~WellFormed(n)) =>
        (Admitted <=>
            /\ ReachesComparison(request_url)
            /\ Triple(request_url) \in {<<"http", <<"localhost">>, {2528}>>,
                                        <<"http", <<"127.0.0.1">>, {2528}>>})

\* C30, amended: when the configured endpoint string does not parse as a
\* URL, every request is rejected, http://localhost:2528 and
\* http://127.0.0.1:2528 included.
C30_UnparsedEndpointRejectsAll ==
    (Decided /\ \E n \in configured_node_url : ~WellFormed(n)) => ~Admitted
\* http://127.0.0.1:2528 is rejected as not the configured endpoint when the
\* configured string is "localhost:2528"
C30_Witness ==
    /\ \E n \in configured_node_url :
          n.scheme = "" /\ n.host = <<"localhost">> /\ n.portpart = <<":", "2528">>
    /\ request_url.scheme = "http" /\ request_url.userinfo = <<>>
    /\ request_url.host = <<"127.0.0.1">>
    /\ request_url.portpart = <<":", "2528">>
    /\ verdict = "NotConfiguredEndpoint"

WithDefaultPort(x) ==
    IF x.portpart # <<>> THEN x
    ELSE CASE WrittenScheme(x) = "http" -> [x EXCEPT !.portpart = <<":", "80">>]
           [] WrittenScheme(x) = "https" -> [x EXCEPT !.portpart = <<":", "443">>]
           [] OTHER -> x

\* C33: a URL that names no port is compared as port 80 (http) or 443
\* (https), on the request side and on the configured side alike: the
\* decision is the one for the same request with the default port written
\* out, and the one against the configured endpoint with its default port
\* written out; with no configured endpoint an http request without a port
\* is rejected.
C33_DefaultPorts ==
    Decided =>
        /\ verdict = validate_allowed_url(UrlString(WithDefaultPort(request_url)),
                                          configured_node_url)
        /\ verdict = validate_allowed_url(UrlString(request_url),
                          {WithDefaultPort(n) : n \in configured_node_url})
        /\ (configured_node_url = {} /\ request_url.portpart = <<>>) => ~Admitted
\* http://localhost:80 is admitted when the configured endpoint is
\* http://localhost
C33_Witness ==
    /\ request_url.scheme = "http" /\ request_url.userinfo = <<>>
    /\ request_url.host = <<"localhost">>
    /\ request_url.portpart = <<":", "80">>
    /\ \E n \in configured_node_url :
          n.scheme = "http" /\ n.host = <<"localhost">> /\ n.portpart = <<>>
    /\ Admitted

\* paths, queries and fragments a URL may end with
OtherTails == {<<>>, <<"/">>, <<"/api/test">>, <<"?q=1">>, <<"#frag">>,
               <<"/", "?q=1">>, <<"/api/test", "?q=1", "#frag">>}
\* user-info components: two without a username or password, three with
OtherUserInfos == {<<>>, <<"@">>, <<"user", "@">>, <<":", "pw", "@">>,
                   <<"user", ":", "pw", "@">>}

\* C38: the decision depends on the request's scheme, on whether it has user
\* info, on its host and its port, and on the configured endpoint's scheme,
\* host and port, and on nothing else: the same request with another path,
\* query or fragment gets the same verdict, the same request with another
\* user-info component of the same kind (none, or some) gets the same
\* admit/reject decision, and so does the request against the configured
\* endpoint written with a path or with user info.
C38_DecisionIgnoresPathAndQuery ==
    Decided =>
        /\ \A t \in OtherTails :
              /\ verdict = validate_allowed_url(
                               UrlString([request_url EXCEPT !.tail = t]),
                               configured_node_url)
              /\ Admitted <=>
                    Admits(request_url,
                           {[n EXCEPT !.tail = t] : n \in configured_node_url})
        /\ \A u \in OtherUserInfos :
              /\ (\E i \in 1..Len(u) : u[i] \notin {"@", ":"})
                       = HasUserInfo(request_url) =>
                    (Admitted <=> Admits([request_url EXCEPT !.userinfo = u],
                                         configured_node_url))
              /\ Admitted <=>
                    Admits(request_url,
                           {[n EXCEPT !.userinfo = u] : n \in configured_node_url})
\* http://localhost:2528/api/test?q=1#frag is admitted, as
\* http://localhost:2528 is
C38_Witness ==
    /\ request_url.scheme = "http" /\ request_url.userinfo = <<>>
    /\ request_url.host = <<"localhost">>
    /\ request_url.portpart = <<":", "2528">>
    /\ request_url.tail = <<"/api/test", "?q=1", "#frag">>
    /\ configured_node_url = {}
    /\ Admitted /\ Admits([request_url EXCEPT !.tail = <<>>], {})

(***************************************************************************)
(* The claims about the forwarding proxy.                                  *)
(***************************************************************************)
\* C9: the proxy issues an outbound HTTP call only after validate has
\* admitted the request URL and only for the methods GET, POST, PUT, DELETE,
\* PATCH, OPTIONS and HEAD; a validator rejection returns the validator's
\* error, any other method returns UnsupportedMethod, and neither makes an
\* outbound call.
C9_CallOnlyIfAdmitted ==
    /\ outbound # {} =>
          /\ verdict = "Ok"
          /\ request.method \in {"GET", "POST", "PUT", "DELETE", "PATCH",
                                 "OPTIONS", "HEAD"}
    /\ verdict \notin {"pending", "Ok"} =>
          /\ proxy_pc = "done" /\ proxy_result = verdict /\ outbound = {}
    /\ (proxy_pc = "done" /\ verdict = "Ok"
          /\ request.method \notin {"GET", "POST", "PUT", "DELETE", "PATCH",
                                    "OPTIONS", "HEAD"}) =>
          /\ proxy_result = "UnsupportedMethod" /\ outbound = {}
\* an OPTIONS request to the admitted URL has gone out
C9_Witness ==
    /\ outbound # {} /\ verdict = "Ok" /\ request.method = "OPTIONS"
    /\ proxy_pc = "sent"

\* the header names of the requests that spell content-type in some letter case
ContentTypeNames == {"content-type", "Content-Type", "CONTENT-TYPE"}

\* C22: the outbound request carries every supplied header unmodified and
\* nothing else but, possibly, the default Content-Type: application/json,
\* which is added iff the request has a body and no supplied header is named
\* content-type in any letter case.
C22_HeadersCopiedDefaultAdded ==
    \A o \in outbound :
        LET supplied == UNION request.headers
            default == <<"Content-Type", "application/json">>
            added == o.headers \ supplied
        IN  /\ supplied \subseteq o.headers
            /\ added \subseteq {default}
            /\ added = {default} <=>
                  /\ request.body # {}
                  /\ \A h \in supplied : h[1] \notin ContentTypeNames
\* a request with a body and the header CONTENT-TYPE: text/plain has gone out
\* with that header alone
C22_Witness ==
    /\ request.body # {}
    /\ request.headers = {{<<"CONTENT-TYPE", "text/plain">>}}
    /\ \E o \in outbound : o.headers = {<<"CONTENT-TYPE", "text/plain">>}

(***************************************************************************)
(* The claims about the supervisor.                                        *)
(***************************************************************************)
\* C1 as claimed: in every interleaving of start, stop, status and monitor
\* steps, no two daemons spawned by this session are alive at the same time.
C1_AtMostOneAlive == Cardinality(Alive) <= 1

\* C2 as claimed: when a start that found a live process P in the slot, with
\* no other invocation in flight from its first step to its last, returns
\* success, P is dead, the slot holds exactly the new pid and exactly one
\* daemon spawned by this session is alive.
C2_StartAfterStart ==
    (ret.op = "start" /\ ret.kind = "started" /\ ret.solo /\ ret.prior > 0) =>
        /\ proc[ret.prior] # "alive"
        /\ merod_state = {MerodProcess(ret.pid, ret.port)}
        /\ Cardinality(Alive) = 1

\* caller c invokes stop_merod in this step
StopInvoked(c) ==
    /\ pc[c] = "idle"
    /\ \/ pc'[c] = "stop_check"
       \/ ret'.op = "stop" /\ ret'.caller = c

\* C10: once a stop_merod has returned success and no start has recorded a
\* process since, the next stop_merod returns NotRunning; and a stop_merod
\* invoked with the slot absent returns NotRunning at once, sends no signal
\* and leaves the slot as it was.
C10_StopIdempotent ==
    [][\A c \in Callers :
          (StopInvoked(c) /\ (stoppedOk \/ merod_state = {})) =>
              /\ ret'.op = "stop" /\ ret'.caller = c /\ ret'.kind = "NotRunning"
              /\ pc'[c] = "idle"
              /\ sent' = {}
              /\ merod_state' = merod_state /\ merod_state' = {}]_vars
\* a second stop_merod has returned NotRunning after one that returned success
C10_Witness ==
    /\ stoppedOk
    /\ ret.op = "stop" /\ ret.kind = "NotRunning"
    /\ sent = {} /\ merod_state = {}

\* C11 as claimed: a stop_merod invoked with the slot occupied leaves the
\* slot absent when it returns, whether it returns Ok or an error.
C11_StopAlwaysClears ==
    (ret.op = "stop" /\ ret.kind # "NotRunning") => merod_state = {}

\* C31: when stop_merod or stop_merod_by_pid_command finds the process gone at
\* a liveness check, or its force kill reports that there is no such process,
\* it returns Ok and the slot no longer holds the pid (after stop_merod the
\* slot is absent); it returns KillFailed exactly when the force kill failed
\* for another reason.
C31_GoneIsSuccess ==
    [][(ret'.op \in {"stop", "stop_by_pid"} /\ ret'.kind # "NotRunning") =>
          /\ ret'.kind \in {"stopped", "KillFailed"}
          /\ ret'.kind = "KillFailed" <=> ret'.kill9 = "other"
          /\ (ret'.kill9 = "no_such_process" \/ ~ProcessExists(ret'.pid)) =>
                /\ ret'.kind = "stopped"
                /\ ret'.pid \notin {m.pid : m \in merod_state'}
                /\ ret'.op = "stop" => merod_state' = {}]_vars
\* stop_merod returned Ok after a force kill that found no such process, and
\* the slot is absent
C31_Witness ==
    /\ ret.op = "stop" /\ ret.kind = "stopped"
    /\ ret.kill9 = "no_such_process"
    /\ sent = {<<ret.pid, "KILL">>}
    /\ merod_state = {}

\* caller c takes a step of stop_merod_by_pid_command(p) here
StopByPidStep(c, p) ==
    \/ /\ pc[c] = "idle"
       /\ \/ pc'[c] = "bypid_recheck" /\ pid'[c] = p
          \/ ret'.op = "stop_by_pid" /\ ret'.caller = c /\ ret'.pid = p
    \/ pc[c] = "bypid_recheck" /\ pid[c] = p /\ pc'[c] = "idle"

\* C12: stop_merod_by_pid_command on a pid no process has returns Ok at
\* once, sends no signal and ends no process; and no step of it changes the
\* slot except to clear a slot that holds the given pid.
C12_StopByPidFrame ==
    [][\A c \in Callers, p \in Pids :
          StopByPidStep(c, p) =>
              /\ (pc[c] = "idle" /\ proc[p] # "alive" /\ p \notin foreign) =>
                    /\ ret'.op = "stop_by_pid" /\ ret'.kind = "stopped"
                    /\ ret'.caller = c /\ pc'[c] = "idle"
                    /\ sent' = {} /\ proc' = proc
              /\ merod_state' # merod_state =>
                    /\ merod_state' = {}
                    /\ \E m \in merod_state : m.pid = p
              /\ (\A m \in merod_state : m.pid # p) => merod_state' = merod_state]_vars
\* stop by pid returned Ok for a pid that never existed, and the slot still
\* holds another process
C12_Witness ==
    /\ ret.op = "stop_by_pid" /\ ret.kind = "stopped" /\ sent = {}
    /\ proc[ret.pid] = "unborn"
    /\ merod_state # {} /\ ret.pid \notin SlotPids

\* caller c invokes get_merod_status in this step
StatusInvoked(c) ==
    /\ pc[c] = "idle"
    /\ \/ pc'[c] = "status_clear"
       \/ ret'.op = "status" /\ ret'.caller = c

\* C13: get_merod_status with the slot absent reports running: false; with
\* the slot holding a live process it reports running: true with the slot's
\* pid and port and leaves the slot unchanged; with the slot holding a dead
\* process it goes on to clear the slot, and the slot is absent when it
\* reports running: false.
C13_Status ==
    [][\A c \in Callers :
          /\ StatusInvoked(c) =>
                /\ merod_state = {} =>
                      /\ ret'.op = "status" /\ ret'.caller = c
                      /\ ret'.kind = "not_running"
                      /\ merod_state' = {}
                /\ \A m \in merod_state :
                      IF proc[m.pid] = "alive"
                      THEN /\ ret'.op = "status" /\ ret'.caller = c
                           /\ ret'.kind = "running"
                           /\ ret'.pid = m.pid /\ ret'.port = m.port
                           /\ merod_state' = merod_state
                      ELSE /\ pc'[c] = "status_clear" /\ ret'.op = "none"
          /\ (pc[c] = "status_clear" /\ pc'[c] = "idle") =>
                /\ ret'.op = "status" /\ ret'.caller = c
                /\ ret'.kind = "not_running"
                /\ merod_state' = {}]_vars
\* status found a dead process in the slot, cleared it and reported
\* running: false before the monitor of that process ran
C13_Witness ==
    /\ ret.op = "status" /\ ret.kind = "not_running" /\ ret.pid > 0
    /\ proc[ret.pid] = "dead" /\ ret.pid \in monitors
    /\ merod_state = {}

\* C14 as claimed: whenever start_merod returns an error, the slot is absent.
C14_FailedStartLeavesSlotAbsent ==
    (ret.op = "start" /\ ret.kind # "started") => merod_state = {}

\* C15 as claimed: start_merod returns success, with the process recorded,
\* only for a child that has not exited by the check after the grace period;
\* a child that has exited, with an exit code or by a signal, makes it fail.
C15_NoSuccessForExitedChild ==
    (ret.op = "start" /\ ret.kind = "started") => proc[ret.pid] = "alive"

\* C34 as claimed: whenever no command invocation is in flight and the slot
\* is absent, no daemon spawned by this session is alive.
C34_NoOrphanedDaemon ==
    ((\A c \in Callers : pc[c] = "idle") /\ merod_state = {}) => Alive = {}

\* C35 as claimed: when get_merod_status changes the slot to absent, the slot
\* held until then the pid the call had probed, and the process of that pid
\* is not running.
C35_StatusClearsProbedPidOnly ==
    [][\A c \in Callers :
          (pc[c] = "status_clear" /\ pc'[c] = "idle"
              /\ merod_state' # merod_state) =>
                /\ SlotPids = {pid[c]}
                /\ \A p \in SlotPids : proc[p] # "alive"]_vars

\* C36: an occupied slot holds the pid of a process that a start_merod call
\* of this session spawned and the server port of that same call.  The only
\* step that writes a process into the slot is the last step of a
\* start_merod, which writes the pid of the child it spawned and its own
\* server_port; a call gets its child at its spawn, a process that did not
\* exist before, and keeps its server_port from its first step to its last;
\* every other step leaves the slot as it is or clears it.
C36_SlotWrittenByStartOnly ==
    /\ [](\A m \in merod_state :
            m.pid \in Pids /\ proc[m.pid] # "unborn" /\ m.port \in ServerPorts)
    /\ [][/\ (merod_state' # merod_state /\ merod_state' # {}) =>
               \E c \in Callers :
                  /\ pc[c] = "start_grace" /\ pc'[c] = "idle"
                  /\ ret'.op = "start" /\ ret'.kind = "started" /\ ret'.caller = c
                  /\ child[c] \in Pids /\ server_port[c] \in ServerPorts
                  /\ merod_state' = {[pid |-> child[c], port |-> server_port[c]]}
          /\ \A c \in Callers :
                /\ (child'[c] # child[c] /\ child'[c] # 0) =>
                      /\ pc[c] = "start_spawn" /\ pc'[c] = "start_grace"
                      /\ proc[child'[c]] = "unborn" /\ proc'[child'[c]] = "alive"
                /\ (pc[c] \in StartStates /\ pc'[c] \in StartStates) =>
                      /\ server_port'[c] = server_port[c]
                      /\ child[c] # 0 => child'[c] = child[c]]_vars
\* a start_merod called with a server port of its own has returned, and the
\* slot holds its child and that port
C36_Witness ==
    /\ ret.op = "start" /\ ret.kind = "started"
    /\ ret.port = DefaultServerPort + 1
    /\ merod_state = {[pid |-> ret.pid, port |-> ret.port]}

\* a start_merod is between its spawn and the end of its grace period, and
\* the daemon it spawned is alive
InGraceWindow ==
    \E c \in Callers : pc[c] = "start_grace" /\ proc[child[c]] = "alive"

\* C37 as claimed: while a start_merod is between its spawn and the end of
\* its grace period the slot does not hold the new pid, and with the new
\* daemon alive a get_merod_status invoked in that window reports
\* running: false and a stop_merod invoked in it returns NotRunning.
C37_UntrackedInGraceWindow ==
    /\ [](\A c \in Callers : pc[c] = "start_grace" => child[c] \notin SlotPids)
    /\ [][\A d \in Callers :
             /\ (InGraceWindow /\ StatusInvoked(d)) =>
                   /\ ret'.op = "status" /\ ret'.caller = d
                   /\ ret'.kind = "not_running"
             /\ (InGraceWindow /\ StopInvoked(d)) =>
                   /\ ret'.op = "stop" /\ ret'.caller = d
                   /\ ret'.kind = "NotRunning"]_vars

(***************************************************************************)
(* The claims about the config patch.                                      *)
(***************************************************************************)
\* the address with the digits of its segment at position i replaced
WithPort(e, i, n) == Address([e.segs EXCEPT ![i].digits = n])

\* the element addresses ip4 127.0.0.1 or ip6 ::1 over tcp, with a port
LoopbackTcp(e) ==
    /\ e.string /\ Len(e.segs) >= 4
    /\ \/ /\ e.segs[1].text = "ip4" /\ e.segs[2].text = "127.0.0.1"
       \/ /\ e.segs[1].text = "ip6" /\ e.segs[2].text = "::1"
    /\ e.segs[3].text = "tcp" /\ e.segs[4].digits >= 0

\* the positions of the transport names /tcp/ and /udp/ in an address
Transports(e) ==
    {i \in 1..Len(e.segs) - 1 : e.segs[i].digits < 0 /\ e.segs[i].text \in {"tcp", "udp"}}

\* the listen arrays of the server (or swarm) table before and after a step:
\* pairs <<before, after>> of item sequences
ListenPairs(before, after) ==
    {<<l.items, m.items>> :
        <<l, m>> \in {lm \in UNION {sv.listen \X tv.listen : sv \in before, tv \in after} :
                         lm[1].array /\ lm[2].array}}

\* an array stays an array: the table and its listen array are still there
ListenKept(before, after) ==
    \A sv \in before : \A l \in sv.listen :
        l.array => \E tv \in after : \E m \in tv.listen :
                       m.array /\ Len(m.items) = Len(l.items)

\* C16: in the document start_merod writes, every element of server.listen
\* that addresses ip4 127.0.0.1 or ip6 ::1 over tcp has its port replaced by
\* server_port, and every other element of server.listen is as it was.
C16_ServerListen ==
    [][patch_result' = "Updated" =>
          /\ ListenKept(config_file.value.server, config_file'.value.server)
          /\ \A pair \in ListenPairs(config_file.value.server, config_file'.value.server) :
                /\ Len(pair[2]) = Len(pair[1])
                /\ \A i \in 1..Len(pair[1]) :
                      pair[2][i] = IF LoopbackTcp(pair[1][i])
                                   THEN WithPort(pair[1][i], 4, ports.server_port)
                                   ELSE pair[1][i]]_vars
\* ["/ip4/127.0.0.1/tcp/2528"] patched with server_port 9000 is
\* ["/ip4/127.0.0.1/tcp/9000"]
C16_Witness ==
    /\ patch_result = "Updated" /\ ports.server_port = 9000
    /\ \E sv \in config_file.value.server :
          sv.listen = {ListenArray(<<Address(<<Name("ip4"), Name("127.0.0.1"),
                                               Name("tcp"), Number(9000)>>)>>)}

\* C17: in the document start_merod writes, every element of swarm.listen
\* that holds one of /tcp/ and /udp/ followed by a port has that port
\* replaced by swarm_port and everything else in it kept, for ip4 and ip6
\* addresses alike.
C17_SwarmListen ==
    [][patch_result' = "Updated" =>
          /\ ListenKept(config_file.value.swarm, config_file'.value.swarm)
          /\ \A pair \in ListenPairs(config_file.value.swarm, config_file'.value.swarm) :
                /\ Len(pair[2]) = Len(pair[1])
                /\ \A i \in 1..Len(pair[1]) :
                      LET e == pair[1][i] IN
                      (e.string /\ Cardinality(Transports(e)) = 1) =>
                          \A t \in Transports(e) :
                              e.segs[t + 1].digits >= 0 =>
                                  pair[2][i] = WithPort(e, t + 1, ports.swarm_port)]_vars
\* "/ip6/::/udp/2428/quic-v1" patched with swarm_port 9001 is
\* "/ip6/::/udp/9001/quic-v1", next to "/ip6/::/tcp/9001"
C17_Witness ==
    /\ patch_result = "Updated" /\ ports.swarm_port = 9001
    /\ \E sv \in config_file.value.swarm : \E l \in sv.listen :
          /\ l.array /\ Len(l.items) = 3
          /\ l.items[1] = Address(<<Name("ip6"), Name("::"), Name("tcp"), Number(9001)>>)
          /\ l.items[2] = Address(<<Name("ip6"), Name("::"), Name("udp"), Number(9001),
                                    Name("quic-v1")>>)

\* C18 as claimed: the document a config patch writes has server.auth_mode =
\* "embedded", whatever the document held before, a document with no server
\* table included.
C18_AuthModeEmbedded ==
    patch_result \in {"Updated", "Initialized"} =>
        \E sv \in config_file.value.server : sv.table /\ sv.auth_mode = {"embedded"}

\* a document with what the patch may rewrite blanked out: server.auth_mode,
\* the server.listen elements that address the loopback over tcp, and the
\* swarm.listen elements that hold a transport
Blank == Address(<<>>)
BlankListen(listen, Rewritten(_)) ==
    {IF l.array
     THEN ListenArray([i \in 1..Len(l.items) |->
                          IF Rewritten(l.items[i]) THEN Blank ELSE l.items[i]])
     ELSE l : l \in listen}
HasTransport(e) == e.string /\ Transports(e) # {}
Unrelated(doc) ==
    Document({IF sv.table
              THEN [sv EXCEPT !.auth_mode = {},
                              !.listen = BlankListen(sv.listen, LoopbackTcp)]
              ELSE sv : sv \in doc.server},
             {IF sv.table
              THEN [sv EXCEPT !.listen = BlankListen(sv.listen, HasTransport)]
              ELSE sv : sv \in doc.swarm},
             doc.rest)

\* C19: every field of the document other than server.auth_mode and the
\* rewritten server.listen and swarm.listen elements has the same value in
\* the document start_merod writes as in the one it read.
C19_UnrelatedFieldsKept ==
    [][patch_result' = "Updated" =>
          Unrelated(config_file'.value) = Unrelated(config_file.value)]_vars
\* a patched document, in the serializer's layout, that still has its other
\* top-level fields, the other keys of both tables, swarm.auth_mode, a
\* non-string listen element and a server.listen element that was not rewritten
C19_Witness ==
    /\ patch_result = "Updated" /\ config_file.layout = "pretty"
    /\ ports.server_port = 9000 /\ ports.swarm_port = 9001
    /\ config_file.value.rest = "identity"
    /\ \E sv \in config_file.value.server :
          /\ sv.table /\ sv.rest = "cors_allowed_origins"
          /\ \E l \in sv.listen :
                /\ l.array /\ Len(l.items) = 3 /\ l.items[3] = NotAString
                /\ l.items[1] = ServerAddresses.any4
    /\ \E sv \in config_file.value.swarm :
          /\ sv.table /\ sv.rest = "discovery" /\ sv.auth_mode = {"proxy"}
          /\ \E l \in sv.listen : l.array /\ Len(l.items) = 2
                /\ l.items[1].segs[4] = Number(9001)

\* C23: detect_running_merod_nodes never changes the slot, whatever the
\* process table and the slot hold, and nothing it observed is written into
\* the slot: the only step that puts a process into the slot is the last step
\* of a start_merod, which records the child that call spawned.
C23_DetectLeavesSlot ==
    [][/\ ret'.op = "detect" => merod_state' = merod_state
       /\ (merod_state' # merod_state /\ merod_state' # {}) =>
             \E c \in Callers :
                 /\ pc[c] = "start_grace" /\ pc'[c] = "idle"
                 /\ merod_state' = {MerodProcess(child[c], server_port[c])}]_vars
\* a detection has found a running daemon while the slot is absent
C23_Witness ==
    /\ ret.op = "detect" /\ ret.kind = "detected"
    /\ \E p \in ret.nodes : proc[p] = "alive"
    /\ merod_state = {}

\* C24: the monitor of process P clears the slot only if the slot's pid is
\* P's pid when it observes the exit; when the slot holds another process,
\* the monitor leaves it unchanged.
C24_MonitorClearsOwnPidOnly ==
    [][\A p \in Pids :
          (ret'.op = "monitor" /\ ret'.pid = p) =>
              merod_state' = IF \E m \in merod_state : m.pid = p
                             THEN {} ELSE merod_state]_vars
\* the monitor of an exited daemon has ended while the slot holds a newer,
\* running daemon
C24_Witness ==
    /\ ret.op = "monitor" /\ proc[ret.pid] = "dead"
    /\ \E m \in merod_state : m.pid > ret.pid /\ proc[m.pid] = "alive"

\* C27: a start that finds the slot occupied sends the prior process the
\* terminate signal, waits, sends the force kill and clears the slot, in this
\* order, and only then rewrites the config and spawns the new daemon.
C27_StopBeforeSpawn ==
    [][\A c \in Callers :
          \* occupied at the first read: the stop sequence begins
          /\ (pc[c] = "idle" /\ pc'[c] \in StartStates /\ merod_state # {}) =>
                /\ pc'[c] = "start_term" /\ pid'[c] \in SlotPids
          \* the terminate signal, then the wait
          /\ (pc[c] = "start_term" /\ pc'[c] # pc[c]) =>
                /\ sent' = {<<pid[c], "TERM">>} /\ pc'[c] = "start_kill"
                /\ merod_state' = merod_state
          \* the force kill, then the slot cleared
          /\ (pc[c] = "start_kill" /\ pc'[c] # pc[c]) =>
                /\ sent' = {<<pid[c], "KILL">>} /\ pc'[c] = "start_spawn"
                /\ merod_state' = {} /\ proc'[pid[c]] # "alive"
          \* the config is rewritten and the daemon spawned in the step after
          /\ (child'[c] # child[c] /\ child'[c] # 0) =>
                /\ pc[c] = "start_spawn" /\ proc[child'[c]] = "unborn"
                /\ pid[c] # 0 => proc[pid[c]] # "alive"]_vars
\* a start that found a process in the slot has spawned its daemon; the prior
\* process is dead
C27_Witness ==
    \E c \in Callers :
        /\ pc[c] = "start_grace" /\ pid[c] # 0
        /\ proc[pid[c]] = "dead" /\ proc[child[c]] = "alive"
        /\ prior[c]

\* C28 as claimed: the slot becomes occupied only from absent, by a start
\* that returns success and records its child; it becomes absent only through
\* a stop (an ambient stop, or the stop sequence of a start), a stop by pid
\* of the slot's pid, a status that found the process dead, or the monitor of
\* the slot's process; it never changes from one pid to a different pid.
C28_SlotStateMachine ==
    [][/\ (merod_state' # merod_state /\ merod_state' # {}) =>
             /\ merod_state = {}
             /\ ret'.op = "start" /\ ret'.kind = "started"
             /\ merod_state' = {MerodProcess(ret'.pid, ret'.port)}
       /\ (merod_state # {} /\ merod_state' = {}) =>
             \/ ret'.op = "stop"
             \/ \E c \in Callers : pc[c] = "start_kill" /\ pc'[c] = "start_spawn"
             \/ ret'.op = "stop_by_pid" /\ ret'.pid \in SlotPids
             \/ ret'.op = "status" /\ ret'.kind = "not_running"
             \/ ret'.op = "monitor" /\ ret'.pid \in SlotPids
       /\ (merod_state # {} /\ merod_state' # {}) => SlotPids' = SlotPids]_vars

\* C29: when the process recorded in the slot has exited, the slot
\* eventually becomes absent, or holds the process of a newer start, by the
\* monitor task alone: no stop and no status call is needed.
C29_ExitEventuallyClears ==
    \A p \in Pids :
        (SlotPids = {p} /\ proc[p] = "dead") ~> (merod_state = {} \/ SlotPids # {p})
\* the monitor of the daemon the only start spawned has cleared the slot, and
\* no stop has returned Ok
C29_Witness ==
    /\ ret.op = "monitor" /\ ret.kind = "cleared" /\ merod_state = {}
    /\ ret.pid = 1 /\ nextPid = 2 /\ ~stoppedOk
    /\ \A c \in Callers : pc[c] = "idle"

\* the (server_port, swarm_port) pairs a later patch may come with
LaterPorts == [server_port : {DefaultServerPort, 9000, 9002},
               swarm_port : {DefaultSwarmPort, 9001, 9003}]

\* C39: the patch of the ports is idempotent and the last patch wins: the
\* document start_merod writes is a fixed point of the patch with the same
\* ports, and patching it with other ports gives the document that patching
\* the file as it was with those ports gives.
C39_PatchIdempotentLastWins ==
    [][(patch_result = "pending" /\ patch_result' = "Updated") =>
          LET before == config_file.value
              after == config_file'.value
          IN  /\ after = UpdatedConfig(before, ports.server_port, ports.swarm_port)
              /\ UpdatedConfig(after, ports.server_port, ports.swarm_port) = after
              /\ \A b \in LaterPorts :
                    UpdatedConfig(after, b.server_port, b.swarm_port)
                        = UpdatedConfig(before, b.server_port, b.swarm_port)]_vars
\* a file patched with ports 9000 and 9001 holds them in its loopback and
\* swarm addresses, and a patch with the default ports would change both
C39_Witness ==
    /\ patch_result = "Updated"
    /\ ports.server_port = 9000 /\ ports.swarm_port = 9001
    /\ \E sv \in config_file.value.server : \E l \in sv.listen :
          /\ l.array /\ Len(l.items) > 0
          /\ l.items[1] = WithPort(ServerAddresses.loopback4, 4, 9000)
    /\ \E sw \in config_file.value.swarm : \E l \in sw.listen :
          /\ l.array /\ Len(l.items) > 0
          /\ l.items[1] = WithPort(SwarmAddresses.tcp4, 4, 9001)
    /\ LET again == UpdatedConfig(config_file.value, DefaultServerPort,
                                  DefaultSwarmPort)
       IN  again.server # config_file.value.server
               /\ again.swarm # config_file.value.swarm

(***************************************************************************)
(* The claims about the node listing.                                      *)
(***************************************************************************)
\* name a comes before name b, or is b, in lexicographic order
LexLeq(a, b) ==
    \/ a = b
    \/ \E k \in 1..Len(b) :
          /\ \A i \in 1..k - 1 : i <= Len(a) /\ a[i] = b[i]
          /\ k - 1 <= Len(a)
          /\ k > Len(a) \/ a[k] < b[k]

\* a non-dot-prefixed directory whose config.toml exists and parses
NodeDirectory(e) == e.is_dir /\ e.name[1] # 46 /\ e.config = "valid"

\* the listing is the names of the entries that satisfy Wanted, each once,
\* in lexicographic order
ListsExactly(Wanted(_)) ==
    \A home \in calimero_home :
        /\ {listing.nodes[i] : i \in 1..Len(listing.nodes)} =
              {home.entries[i].name :
                  i \in {j \in 1..Len(home.entries) : Wanted(home.entries[j])}}
        /\ \A i, j \in 1..Len(listing.nodes) :
              i < j => /\ listing.nodes[i] # listing.nodes[j]
                       /\ LexLeq(listing.nodes[i], listing.nodes[j])

\* the listing fails only when the storage root or one of its entries cannot
\* be read, never over a node's config.toml, and a storage root that does not
\* exist lists as empty
ListingNeverFailsOverConfig ==
    /\ listing.status \in {"pending", "Ok", "ReadDirFailed", "ReadEntryFailed"}
    /\ (calimero_home = {} /\ listing # NotListed) => listing = Listed(<<>>)
    /\ listing.status = "ReadDirFailed" => \E home \in calimero_home : ~home.readable

\* C20 as claimed: list_merod_nodes returns exactly the names of the
\* non-dot-prefixed directories whose config.toml exists and parses, sorted
\* lexicographically; a bad config never makes it fail; a storage root that
\* does not exist lists as empty.
C20_ListsEveryNodeDirectory ==
    /\ ListingNeverFailsOverConfig
    /\ listing.status = "Ok" => ListsExactly(NodeDirectory)

\* a node directory whose name is valid Unicode
UnicodeNodeDirectory(e) == NodeDirectory(e) /\ e.unicode

\* C20, amended: list_merod_nodes returns exactly the names of the
\* non-dot-prefixed directories whose name is valid Unicode and whose
\* config.toml exists and parses, sorted lexicographically; a bad config
\* never makes it fail; a storage root that does not exist lists as empty.
C20_ListsUnicodeNodeDirectories ==
    /\ ListingNeverFailsOverConfig
    /\ listing.status = "Ok" => ListsExactly(UnicodeNodeDirectory)
\* read_dir gave "b", then a directory with an unparseable config, then "A";
\* the listing is "A", "b"
C20_Witness ==
    /\ listing = Listed(<<(<<65>>), (<<98>>)>>)
    /\ \E home \in calimero_home :
          /\ Len(home.entries) = 3
          /\ home.entries[1].name = <<98>> /\ home.entries[3].name = <<65>>
          /\ home.entries[2].is_dir /\ home.entries[2].unicode
          /\ home.entries[2].name = <<97>> /\ home.entries[2].config = "invalid"

(***************************************************************************)
(* The claims about the log reader.                                        *)
(***************************************************************************)
\* the lines a returned text shows when it is split at its line feeds
ShownLines(text) == text.lines \o (IF text.terminated THEN <<(<<>>)>> ELSE <<>>)

\* C21: get_merod_logs returns the last N lines of the log file in their
\* original order, N the smaller of `lines` (500 when absent) and 10000, and
\* all the lines when the file has fewer than N (a single empty line shows as
\* the empty text); with no log file it returns an error.
C21_LastLinesInOrder ==
    /\ (log_file = {} /\ logs # NotRead) => logs.status \notin {"pending", "Ok"}
    /\ logs.status = "Ok" =>
          \E f \in log_file :
              LET total == Len(f.lines)
                  wanted == IF lines = {} THEN 500 ELSE CHOOSE n \in lines : TRUE
                  N == IF wanted > 10000 THEN 10000 ELSE wanted
                  K == IF total < N THEN total ELSE N
                  shown == ShownLines(logs.text)
              IN  \/ /\ Len(shown) = K
                     /\ \A j \in 1..K : shown[j] = f.lines[total - K + j]
                  \/ /\ K = 1 /\ f.lines[total] = <<>>
                     /\ logs.text = Text(<<>>, FALSE)
\* of a file of 10001 lines, read with `lines` far above 10000, lines 2 to
\* 10001 are returned
C21_Witness ==
    /\ logs.status = "Ok"
    /\ lines = {2147483647}
    /\ \E f \in log_file : Len(f.lines) = 10001 /\ f.lines[10001] = <<10001>>
    /\ Len(logs.text.lines) = 10000
    /\ logs.text.lines[1] = <<2>> /\ logs.text.lines[10000] = <<10001>>

(***************************************************************************)
(* The claims about the lock of the slot.                                  *)
(***************************************************************************)
\* the operation task t is about to perform, "none" when it has ended
NextOp(t) == IF todo[t] = <<>> THEN "none" ELSE Head(todo[t])

\* C25 as claimed: a task holds the lock only to read or to replace the
\* slot: whatever it spawns, signals, probes or awaits, it does with the lock
\* released, in start, stop, stop by pid, status and the monitor alike.
C25_LockOnlyForReadOrReplace ==
    \A t \in DOMAIN todo :
        t \in lock => NextOp(t) \in {"read", "write", "unlock"}

\* C26: no task ever waits for the lock while it holds it, and every task
\* that waits for the lock eventually holds it.
C26_NoDeadlock ==
    /\ [](\A t \in Tasks : ~(t \in lock /\ NextOp(t) = "lock"))
    /\ \A t \in Tasks : (NextOp(t) = "lock") ~> (t \in lock)
\* a status call that found the process dead has dropped its guard and waits
\* for the lock, which another task holds
C26_Witness ==
    \E t, u \in DOMAIN todo :
        /\ todo[t] = <<"lock", "write", "unlock">> /\ t \notin lock
        /\ u \in lock /\ u # t

====
